---- MODULE Spec2Model ----
(***************************************************************************)
(* A model of the hybrid mount engine: the executor (engine::run), the     *)
(* planner (planner::generate), the OverlayFS driver (mount_overlayfs,     *)
(* mount_overlay with its child restoration and bind_mount), the scanner   *)
(* (scan_active_modules), the sync engine (perform_sync) and the           *)
(* descriptor rewrite (update_description).                                *)
(*                                                                         *)
(* Strings and paths are sequences of byte values, so that the id sort is  *)
(* the byte-wise comparison of Rust's String and the ':'-joined lowerdir   *)
(* option is built character by character.                                 *)
(***************************************************************************)
EXTENDS Integers, Sequences, FiniteSets, TLC

VARIABLES
    \* ---- inputs shared by the executor and the planner
    fs,                 \* module content trees: id -> [exists, tree]
    config_partitions,  \* config.partitions (user-configured extras)
    \* ---- engine::run
    active_modules,     \* HashMap<String, PathBuf>: id -> content path
    module_modes,       \* config::load_module_modes(): id -> mode
    pc,                 \* position of engine::run
    sorted_modules,     \* Vec<(id, path)> sorted by id
    partition_map,      \* HashMap<String, Vec<PathBuf>>
    magic_force_map,    \* HashMap<String, bool>
    remaining,          \* partitions the Pass 1 loop has not visited yet
    visited,            \* iteration order of partition_map (Pass 1 and 2)
    magic_partitions,   \* Vec<String>
    magic_modules,      \* HashSet<PathBuf>
    module_list,        \* Vec<PathBuf> handed to the magic mount
    calls,              \* the calls run has made to its collaborators; a
                        \* mount_overlay call carries the lowerdir option
                        \* mount_overlayfs builds from its arguments
    result,             \* what run returned: "none" (running), "ok", "err"
    \* ---- planner::generate
    plan_modules,       \* modules: &[Module], each [id, mode]
    plan_pc,            \* "start" before the call, "done" after it
    plan,               \* the MountPlan returned
    \* ---- mount_overlayfs
    ovl_args,           \* lower_dirs, lowest, upperdir, workdir, dest, flag
    ovl_pc,             \* position of mount_overlayfs
    ovl_step,           \* index of the next call of the fs-config sequence
    ovl_ctx,            \* string options set on the filesystem context
    ovl_trace,          \* the system calls made, each with its outcome
    mounts,             \* the mounts placed on dest, bottom first
    unmountable,        \* paths received by the unmountable-path sink
    ovl_result,         \* what mount_overlayfs returned: "none", "ok", "err"
    \* ---- mount_overlay
    mo_args,            \* target_root, module_roots, disable_umount
    mo_mountinfo,       \* mount points listed in /proc/self/mountinfo
    mo_tree,            \* per child of target_root: the stock child's kind
                        \* and the kind of the same path in each module root
    mo_pc,              \* position of mount_overlay
    mo_seq,             \* mount_seq: child mount points still to restore
    mo_cwd,             \* the working directory of the process
    mo_events,          \* calls, mounts and sink notifications, in order
    mo_result,          \* what mount_overlay returned: "none", "ok", "err"
    \* ---- scanner::scan_active_modules
    scan_meta,          \* the metadata directory: exists, read error, entries
    scan_mnt,           \* the auxiliary mnt directory: exists, entries
    scan_pc,            \* position of scan_active_modules
    scan_map,           \* active_modules being built: id -> path
    scan_result,        \* what it returned: "none", "ok", "err"
    \* ---- sync::perform_sync
    sync_modules,       \* modules: &[Module], the inventory (ids in order)
    sync_src,           \* per module: its source tree
    staging,            \* top-level entries of target_base: name -> entry
    sync_base,          \* target_base exists
    sync_pc,            \* position of perform_sync
    sync_i,             \* index of the module the loop is at
    sync_run,           \* "first" or "second" run of perform_sync
    sync_log,           \* removals, copies and repairs attempted, in order
    sync_result,        \* what the run returned: "none", "ok", "err"
    sync_first,         \* staging and result at the end of the first run
    sync_event,         \* what happened between the runs
    \* ---- modules::update_description
    desc_args,          \* storage_mode, nuke_active, overlay_count, magic_count
    desc_file,          \* the module.prop file: exists, bytes
    desc_hist           \* one record per call: file before, after, outcome

runVars ==
    <<active_modules, module_modes, pc, sorted_modules, partition_map,
      magic_force_map, remaining, visited, magic_partitions, magic_modules,
      module_list, calls, result>>

inputVars ==
    <<fs, config_partitions>>

planVars ==
    <<plan_modules, plan_pc, plan>>

ovlVars ==
    <<ovl_args, ovl_pc, ovl_step, ovl_ctx, ovl_trace, mounts, unmountable,
      ovl_result>>

moVars ==
    <<mo_args, mo_mountinfo, mo_tree, mo_pc, mo_seq, mo_cwd, mo_events,
      mo_result>>

scanVars ==
    <<scan_meta, scan_mnt, scan_pc, scan_map, scan_result>>

syncVars ==
    <<sync_modules, sync_src, staging, sync_base, sync_pc, sync_i, sync_run,
      sync_log, sync_result, sync_first, sync_event>>

descVars ==
    <<desc_args, desc_file, desc_hist>>

vars ==
    <<inputVars, runVars, planVars, ovlVars, moVars, scanVars, syncVars,
      descVars>>

\* everything engine::run leaves alone
outsideRun ==
    <<planVars, ovlVars, moVars, scanVars, syncVars, descVars>>

\* everything planner::generate leaves alone
outsidePlan ==
    <<runVars, ovlVars, moVars, scanVars, syncVars, descVars>>

\* everything mount_overlayfs leaves alone
outsideOvl ==
    <<inputVars, runVars, planVars, moVars, scanVars, syncVars, descVars>>

\* everything mount_overlay leaves alone
outsideMo ==
    <<inputVars, runVars, planVars, ovlVars, scanVars, syncVars, descVars>>

\* everything scan_active_modules leaves alone
outsideScan ==
    <<inputVars, runVars, planVars, ovlVars, moVars, syncVars, descVars>>

\* everything perform_sync leaves alone
outsideSync ==
    <<inputVars, runVars, planVars, ovlVars, moVars, scanVars, descVars>>

\* everything update_description leaves alone
outsideDesc ==
    <<inputVars, runVars, planVars, ovlVars, moVars, scanVars, syncVars>>

-----------------------------------------------------------------------------
(* Bounds of the model *)

\* how many candidate module ids the inventory is drawn from
MaxModules == 3

-----------------------------------------------------------------------------
(* Strings *)

Slash ==
    <<47>>

Colon ==
    <<58>>

\* "system", "vendor", "product", "system_ext", "odm", "oem"
BUILTIN_PARTITIONS ==
    << <<115, 121, 115, 116, 101, 109>>,
       <<118, 101, 110, 100, 111, 114>>,
       <<112, 114, 111, 100, 117, 99, 116>>,
       <<115, 121, 115, 116, 101, 109, 95, 101, 120, 116>>,
       <<111, 100, 109>>,
       <<111, 101, 109>> >>

PSystem ==
    BUILTIN_PARTITIONS[1]

PVendor ==
    BUILTIN_PARTITIONS[2]

\* the candidate module ids "A", "B", "C", "AB", "D", ...: the fourth is a
\* proper extension of the first, so byte order and index order differ
IdTable ==
    << <<65>>, <<66>>, <<67>>, <<65, 66>>, <<68>>, <<69>> >>

ModuleIds ==
    {IdTable[i] : i \in 1..MaxModules}

IdA ==
    IdTable[1]

IdB ==
    IdTable[2]

IdC ==
    IdTable[3]

Min(a, b) ==
    IF a < b THEN a ELSE b

\* a.cmp(b) == Less for Rust strings: byte-wise lexicographic
StrLess(a, b) ==
    \E i \in 1..(Min(Len(a), Len(b)) + 1) :
        /\ \A j \in 1..(i - 1) : a[j] = b[j]
        /\ \/ i > Len(a) /\ i <= Len(b)
           \/ i <= Len(a) /\ i <= Len(b) /\ a[i] < b[i]

\* Path::join for a relative second component
PathJoin(base, part) ==
    IF base = <<>> THEN part ELSE base \o Slash \o part

\* format!("/{}", part)
TargetPath(part) ==
    Slash \o part

Reverse(s) ==
    [i \in 1..Len(s) |-> s[Len(s) + 1 - i]]

SeqToSet(s) ==
    {s[i] : i \in 1..Len(s)}

RECURSIVE Join(_, _)
\* [a, b, c].join(sep)
Join(strs, sep) ==
    IF Len(strs) = 0 THEN <<>>
    ELSE IF Len(strs) = 1 THEN strs[1]
    ELSE strs[1] \o sep \o Join(Tail(strs), sep)

RECURSIVE FilterSeq(_, _)
FilterSeq(s, keep) ==
    IF s = <<>> THEN <<>>
    ELSE IF Head(s) \in keep THEN <<Head(s)>> \o FilterSeq(Tail(s), keep)
    ELSE FilterSeq(Tail(s), keep)

-----------------------------------------------------------------------------
(* The module content trees *)

\* the partitions a module tree of the model may hold an entry for
TreeParts ==
    {PSystem, PVendor}

\* what sits at <content>/<partition>: nothing, a plain file, an empty
\* directory, a directory with at least one entry
EntryKinds ==
    {"none", "file", "empty", "full"}

EntryAt(id, part) ==
    IF id \in DOMAIN fs /\ fs[id].exists /\ part \in DOMAIN fs[id].tree
    THEN fs[id].tree[part]
    ELSE "none"

\* content_path.exists()
ContentExists(id) ==
    id \in DOMAIN fs /\ fs[id].exists

\* part_dir.is_dir()
IsDir(id, part) ==
    EntryAt(id, part) \in {"empty", "full"}

\* path.exists()
PathExists(id, part) ==
    EntryAt(id, part) # "none"

NoTree ==
    [p \in TreeParts |-> "none"]

-----------------------------------------------------------------------------
(* engine::run *)

\* the inventory the scanner hands to run: Path::new(content dir).join(id),
\* with the content directory taken as the empty relative path, so that the
\* layer of module A for system reads "A/system"
ContentPath(id) ==
    PathJoin(<<>>, id)

\* module_modes.get(module_id).unwrap_or("auto")
ModeOf(id) ==
    IF id \in DOMAIN module_modes THEN module_modes[id] ELSE "auto"

\* BUILTIN_PARTITIONS.to_vec() extended by config.partitions
AllPartitions ==
    BUILTIN_PARTITIONS \o config_partitions

RECURSIVE SortById(_)
\* sorted_modules.sort_by(|a, b| a.0.cmp(&b.0)) on the map's entries
SortById(ids) ==
    IF ids = {} THEN <<>>
    ELSE LET m == CHOOSE x \in ids : \A y \in ids \ {x} : StrLess(x, y)
         IN  <<m>> \o SortById(ids \ {m})

\* partition_map.entry(part).or_default().push(path)
PushEntry(map, part, path) ==
    IF part \in DOMAIN map
    THEN [map EXCEPT ![part] = Append(@, path)]
    ELSE [k \in DOMAIN map \cup {part} |->
             IF k = part THEN <<path>> ELSE map[k]]

\* the mode string compared with the wrong case: no module is ever magic
ForcedByWrongCase(id, part) ==
    ModeOf(id) = "Magic" /\ IsDir(id, part)

\* the is_magic branch of the grouping loop: which partitions one module forces
ForcedBy(id, part) ==
    ModeOf(id) = "magic" /\ IsDir(id, part)

RECURSIVE GroupParts(_, _, _)
\* the inner loop over all_partitions for one module
GroupParts(st, id, parts) ==
    IF parts = <<>> THEN st
    ELSE LET part == Head(parts)
             st1  == IF IsDir(id, part)
                     THEN [pm |-> PushEntry(st.pm, part, ContentPath(id)),
                           mf |-> IF ForcedBy(id, part)
                                  THEN st.mf \cup {part} ELSE st.mf]
                     ELSE st
         IN  GroupParts(st1, id, Tail(parts))

RECURSIVE GroupModules(_, _)
\* the outer loop over sorted_modules
GroupModules(st, ids) ==
    IF ids = <<>> THEN st
    ELSE IF ~ContentExists(Head(ids)) THEN GroupModules(st, Tail(ids))
    ELSE GroupModules(GroupParts(st, Head(ids), AllPartitions), Tail(ids))

EmptyMap ==
    [k \in {} |-> <<>>]

\* step 1 and 2 of run: load modes, sort, group by partition
RunGroup ==
    /\ pc = "start"
    /\ \E sorted \in {SortById(DOMAIN active_modules)} :
          \E st \in {GroupModules([pm |-> EmptyMap, mf |-> {}], sorted)} :
             /\ sorted_modules' = sorted
             /\ partition_map' = st.pm
             /\ magic_force_map' = st.mf
    /\ pc' = "tempdir"
    /\ UNCHANGED outsideRun
    /\ UNCHANGED <<inputVars, active_modules, module_modes, remaining, visited,
                   magic_partitions, magic_modules, module_list, calls, result>>

\* config.tempdir, else utils::select_temp_dir()?
RunTempDir ==
    /\ pc = "tempdir"
    /\ \E configured \in BOOLEAN, selected \in BOOLEAN :
          IF configured \/ selected
          THEN /\ pc' = "pass1"
               /\ remaining' = DOMAIN partition_map
               /\ result' = result
          ELSE /\ pc' = "done"
               /\ remaining' = remaining
               /\ result' = "err"
    /\ UNCHANGED outsideRun
    /\ UNCHANGED <<inputVars, active_modules, module_modes, sorted_modules,
                   partition_map, magic_force_map, visited, magic_partitions,
                   magic_modules, module_list, calls>>

\* *magic_force_map.get(part).unwrap_or(&false)
UseMagic(force, part) ==
    part \in force

\* the layers without the .rev()
OverlayPathsNoRev(modules, part) ==
    [i \in 1..Len(modules) |-> PathJoin(modules[i], part)]

\* modules.iter().rev().map(|m| m.join(part).display().to_string())
OverlayPaths(modules, part) ==
    [i \in 1..Len(modules) |-> PathJoin(Reverse(modules)[i], part)]

\* the stock root chained in front of the module layers
LowerdirConfigLowestFirst(lower_dirs, lowest) ==
    Join(<<lowest>> \o lower_dirs, Colon)

\* mount_overlayfs: lower_dirs chained with lowest, joined by ":"
LowerdirConfig(lower_dirs, lowest) ==
    Join(lower_dirs \o <<lowest>>, Colon)

\* mount_overlay returns Result<()>: Ok, or the error of its chdir, of the
\* mountinfo read or of the root overlay mount
MountOverlayOutcomes ==
    {"err", "ok"}

\* the Err arm that only logs
OnOverlayErrorLogOnly(force, part) ==
    force

\* the Err arm of the mount_overlay call
OnOverlayError(force, part) ==
    force \cup {part}

NoString ==
    <<0>>

\* one iteration of the Pass 1 loop
RunPass1 ==
    /\ pc = "pass1"
    /\ \E part \in remaining :
          /\ remaining' = remaining \ {part}
          /\ visited' = Append(visited, part)
          /\ IF UseMagic(magic_force_map, part)
             THEN UNCHANGED <<magic_force_map, calls>>
             ELSE \E out \in MountOverlayOutcomes :
                     LET target == TargetPath(part)
                         paths  == OverlayPaths(partition_map[part], part)
                     IN  /\ calls' = Append(calls,
                               [op       |-> "mount_overlay",
                                target   |-> target,
                                roots    |-> paths,
                                lowerdir |-> LowerdirConfig(paths, target),
                                ok       |-> out = "ok"])
                         /\ magic_force_map' =
                               IF out = "ok" THEN magic_force_map
                               ELSE OnOverlayError(magic_force_map, part)
    /\ UNCHANGED outsideRun
    /\ UNCHANGED <<inputVars, active_modules, module_modes, pc, sorted_modules,
                   partition_map, magic_partitions, magic_modules, module_list,
                   result>>

\* the modules of every force-magic partition
MagicModules(map, force) ==
    UNION {SeqToSet(map[part]) : part \in {p \in DOMAIN map : UseMagic(force, p)}}

\* the Pass 1 loop left after its first iteration
Pass1CompleteAfterOne ==
    visited # <<>> \/ remaining = {}

\* the Pass 1 loop has run over every entry of partition_map
Pass1Complete ==
    remaining = {}

\* the Pass 2 collection loop and the is_empty test that follows it
RunPass2 ==
    /\ pc = "pass1"
    /\ Pass1Complete
    /\ magic_partitions' =
          FilterSeq(visited, {p \in DOMAIN partition_map :
                                 UseMagic(magic_force_map, p)})
    /\ magic_modules' = MagicModules(partition_map, magic_force_map)
    /\ IF magic_modules' = {}
       THEN pc' = "done" /\ result' = "ok"
       ELSE pc' = "ensure" /\ result' = result
    /\ UNCHANGED outsideRun
    /\ UNCHANGED <<inputVars, active_modules, module_modes, sorted_modules,
                   partition_map, magic_force_map, remaining, visited,
                   module_list, calls>>

\* the list filtered from the module list in overlay (reversed) order
ModuleListDescending(sorted, magic) ==
    FilterSeq([i \in 1..Len(sorted) |-> active_modules[sorted[Len(sorted) + 1 - i]]],
              magic)

\* sorted_modules filtered by magic_modules.contains(path), mapped to the path
ModuleList(sorted, magic) ==
    FilterSeq([i \in 1..Len(sorted) |-> active_modules[sorted[i]]], magic)

CallRecord(op, roots, ok) ==
    [op |-> op, target |-> <<>>, roots |-> roots, lowerdir |-> NoString,
     ok |-> ok]

\* utils::ensure_temp_dir(&tempdir)? and the module_list filter
RunEnsure ==
    /\ pc = "ensure"
    /\ \E ok \in BOOLEAN :
          /\ calls' = Append(calls, CallRecord("ensure_temp_dir", <<>>, ok))
          /\ IF ok
             THEN /\ module_list' = ModuleList(sorted_modules, magic_modules)
                  /\ pc' = "magic"
                  /\ result' = result
             ELSE /\ module_list' = module_list
                  /\ pc' = "done"
                  /\ result' = "err"
    /\ UNCHANGED outsideRun
    /\ UNCHANGED <<inputVars, active_modules, module_modes, sorted_modules,
                   partition_map, magic_force_map, remaining, visited,
                   magic_partitions, magic_modules>>

\* magic_mount::mount_partitions(&tempdir, &module_list, ...), error logged
RunMagic ==
    /\ pc = "magic"
    /\ \E ok \in BOOLEAN :
          calls' = Append(calls, CallRecord("mount_partitions", module_list, ok))
    /\ pc' = "cleanup"
    /\ UNCHANGED outsideRun
    /\ UNCHANGED <<inputVars, active_modules, module_modes, sorted_modules,
                   partition_map, magic_force_map, remaining, visited,
                   magic_partitions, magic_modules, module_list, result>>

\* utils::cleanup_temp_dir(&tempdir) and the final Ok(())
RunCleanup ==
    /\ pc = "cleanup"
    /\ calls' = Append(calls, CallRecord("cleanup_temp_dir", <<>>, TRUE))
    /\ pc' = "done"
    /\ result' = "ok"
    /\ UNCHANGED outsideRun
    /\ UNCHANGED <<inputVars, active_modules, module_modes, sorted_modules,
                   partition_map, magic_force_map, remaining, visited,
                   magic_partitions, magic_modules, module_list>>

-----------------------------------------------------------------------------
(* The parts of the state a specification does not exercise *)

EmptyPlan ==
    [overlay_ops |-> <<>>, magic_module_paths |-> <<>>,
     overlay_module_ids |-> <<>>, magic_module_ids |-> <<>>]

NoArgs ==
    [lower_dirs |-> <<>>, lowest |-> <<>>, upperdir |-> "none",
     workdir |-> "none", dest |-> <<>>, disable_umount |-> FALSE]

IdleRun ==
    /\ active_modules = EmptyMap
    /\ module_modes = EmptyMap
    /\ pc = "idle"
    /\ sorted_modules = <<>>
    /\ partition_map = EmptyMap
    /\ magic_force_map = {}
    /\ remaining = {}
    /\ visited = <<>>
    /\ magic_partitions = <<>>
    /\ magic_modules = {}
    /\ module_list = <<>>
    /\ calls = <<>>
    /\ result = "none"

IdlePlan ==
    /\ plan_modules = <<>>
    /\ plan_pc = "idle"
    /\ plan = EmptyPlan

IdleOvl ==
    /\ ovl_args = NoArgs
    /\ ovl_pc = "idle"
    /\ ovl_step = 0
    /\ ovl_ctx = <<>>
    /\ ovl_trace = <<>>
    /\ mounts = <<>>
    /\ unmountable = <<>>
    /\ ovl_result = "none"

IdleInputs ==
    /\ fs = EmptyMap
    /\ config_partitions = <<>>

IdleMo ==
    /\ mo_args = [target_root |-> <<>>, module_roots |-> <<>>,
                  disable_umount |-> FALSE]
    /\ mo_mountinfo = <<>>
    /\ mo_tree = EmptyMap
    /\ mo_pc = "idle"
    /\ mo_seq = <<>>
    /\ mo_cwd = <<>>
    /\ mo_events = <<>>
    /\ mo_result = "none"

IdleScan ==
    /\ scan_meta = [exists |-> FALSE, error |-> "none", entries |-> EmptyMap]
    /\ scan_mnt = [exists |-> FALSE, error |-> "none", entries |-> EmptyMap]
    /\ scan_pc = "idle"
    /\ scan_map = EmptyMap
    /\ scan_result = "none"

IdleSync ==
    /\ sync_modules = <<>>
    /\ sync_src = EmptyMap
    /\ staging = EmptyMap
    /\ sync_base = FALSE
    /\ sync_pc = "idle"
    /\ sync_i = 0
    /\ sync_run = "none"
    /\ sync_log = <<>>
    /\ sync_result = "none"
    /\ sync_first = <<>>
    /\ sync_event = "none"

\* a file that does not exist, and one that holds the given bytes
NoFile ==
    [exists |-> FALSE, bytes |-> <<>>]

FileOf(bytes) ==
    [exists |-> TRUE, bytes |-> bytes]

IdleDesc ==
    /\ desc_args = [storage_mode |-> <<>>, nuke_active |-> FALSE,
                    overlay_count |-> 0, magic_count |-> 0]
    /\ desc_file = NoFile
    /\ desc_hist = <<>>

\* the components added after the executor, the planner and the driver
IdleRest ==
    IdleMo /\ IdleScan /\ IdleSync /\ IdleDesc

-----------------------------------------------------------------------------
(* The inputs of a run *)

\* the trees of the executor's specification: each partition entry is absent
\* or a directory with content
RunTrees ==
    [TreeParts -> {"none", "full"}]

\* one module of the inventory: not in it, in it without content on disk, or
\* in it with a mode and a tree
RunModuleOptions ==
    {[active |-> FALSE, exists |-> FALSE, mode |-> "auto", tree |-> NoTree],
     [active |-> TRUE,  exists |-> FALSE, mode |-> "auto", tree |-> NoTree]}
    \cup [active : {TRUE}, exists : {TRUE}, mode : {"auto", "magic"},
          tree : RunTrees]

\* config.partitions: none, or an extra that repeats a built-in name
RunConfigs ==
    {<<>>, <<PSystem>>}

InitRun ==
    /\ \E inv \in [ModuleIds -> RunModuleOptions] :
          LET act == {id \in ModuleIds : inv[id].active}
          IN  /\ active_modules = [id \in act |-> ContentPath(id)]
              /\ module_modes =
                    [id \in {x \in act : inv[x].mode = "magic"} |-> "magic"]
              /\ fs = [id \in act |->
                          [exists |-> inv[id].exists, tree |-> inv[id].tree]]
    /\ config_partitions \in RunConfigs
    /\ pc = "start"
    /\ sorted_modules = <<>>
    /\ partition_map = EmptyMap
    /\ magic_force_map = {}
    /\ remaining = {}
    /\ visited = <<>>
    /\ magic_partitions = <<>>
    /\ magic_modules = {}
    /\ module_list = <<>>
    /\ calls = <<>>
    /\ result = "none"
    /\ IdlePlan
    /\ IdleOvl
    /\ IdleRest

NextRun ==
    \/ RunGroup
    \/ RunTempDir
    \/ RunPass1
    \/ RunPass2
    \/ RunEnsure
    \/ RunMagic
    \/ RunCleanup

SpecRun ==
    InitRun /\ [][NextRun]_vars

\* the trees of the second specification of the executor: <id>/system is
\* anything of EntryKinds, <id>/vendor is absent or a directory with content
KindTrees ==
    {t \in [TreeParts -> EntryKinds] : t[PVendor] \in {"none", "full"}}

KindModuleOptions ==
    {[active |-> FALSE, exists |-> FALSE, mode |-> "auto", tree |-> NoTree],
     [active |-> TRUE,  exists |-> FALSE, mode |-> "auto", tree |-> NoTree]}
    \cup [active : {TRUE}, exists : {TRUE}, mode : {"auto", "magic"},
          tree : KindTrees]

\* run with up to two modules whose partition entries are of every kind and
\* no extra partitions
InitRunKinds ==
    /\ \E inv \in [{IdA, IdB} -> KindModuleOptions] :
          LET act == {id \in {IdA, IdB} : inv[id].active}
          IN  /\ active_modules = [id \in act |-> ContentPath(id)]
              /\ module_modes =
                    [id \in {x \in act : inv[x].mode = "magic"} |-> "magic"]
              /\ fs = [id \in act |->
                          [exists |-> inv[id].exists, tree |-> inv[id].tree]]
    /\ config_partitions = <<>>
    /\ pc = "start"
    /\ sorted_modules = <<>>
    /\ partition_map = EmptyMap
    /\ magic_force_map = {}
    /\ remaining = {}
    /\ visited = <<>>
    /\ magic_partitions = <<>>
    /\ magic_modules = {}
    /\ module_list = <<>>
    /\ calls = <<>>
    /\ result = "none"
    /\ IdlePlan
    /\ IdleOvl
    /\ IdleRest

SpecRunKinds ==
    InitRunKinds /\ [][NextRun]_vars

-----------------------------------------------------------------------------
(* planner::generate *)

\* "staging"
StorageRoot ==
    <<115, 116, 97, 103, 105, 110, 103>>

\* storage_root.join(&module.id)
StagingPath(id) ==
    PathJoin(StorageRoot, id)

\* defs::BUILTIN_PARTITIONS.to_vec() extended by config.partitions
TargetPartitions ==
    BUILTIN_PARTITIONS \o config_partitions

\* has_files(path): read_dir yields at least one entry
HasFiles(id, part) ==
    EntryAt(id, part) = "full"

\* has_meaningful_content(base, partitions)
HasMeaningfulContent(id, parts) ==
    \E i \in 1..Len(parts) : PathExists(id, parts[i]) /\ HasFiles(id, parts[i])

\* part_path.is_dir() && has_files(&part_path)
Participates(id, part) ==
    IsDir(id, part) /\ HasFiles(id, part)

RECURSIVE PlanParts(_, _, _)
\* the loop over target_partitions for one auto module
PlanParts(layers, id, parts) ==
    IF parts = <<>> THEN layers
    ELSE LET part == Head(parts)
             next == IF Participates(id, part)
                     THEN PushEntry(layers, part, PathJoin(StagingPath(id), part))
                     ELSE layers
         IN  PlanParts(next, id, Tail(parts))

\* the body of the loop over modules, for one module
PlanModule(st, m) ==
    IF ~ContentExists(m.id) THEN st
    ELSE IF m.mode = "magic"
    THEN IF HasMeaningfulContent(m.id, TargetPartitions)
         THEN [st EXCEPT !.magic_paths = @ \cup {StagingPath(m.id)},
                         !.magic_ids = @ \cup {m.id}]
         ELSE st
    ELSE LET layers == PlanParts(st.partition_layers, m.id, TargetPartitions)
         IN  IF layers # st.partition_layers
             THEN [st EXCEPT !.partition_layers = layers,
                             !.overlay_ids = @ \cup {m.id}]
             ELSE st

RECURSIVE PlanModules(_, _)
PlanModules(st, ms) ==
    IF ms = <<>> THEN st
    ELSE PlanModules(PlanModule(st, Head(ms)), Tail(ms))

\* the orders in which a hash container of these elements can be iterated
Orders(set) ==
    {s \in [1..Cardinality(set) -> set] : SeqToSet(s) = set}

\* generate(config, modules, storage_root): the plan is returned with its
\* overlay_ops and magic_module_paths in hash-iteration order
Generate ==
    /\ plan_pc = "start"
    /\ \E st \in {PlanModules([partition_layers |-> EmptyMap,
                               magic_paths |-> {}, overlay_ids |-> {},
                               magic_ids |-> {}], plan_modules)} :
          \E po \in Orders(DOMAIN st.partition_layers),
             mo \in Orders(st.magic_paths) :
             plan' = [overlay_ops |->
                         [i \in 1..Len(po) |->
                             [target |-> TargetPath(po[i]),
                              lowerdirs |-> st.partition_layers[po[i]]]],
                      magic_module_paths |-> mo,
                      overlay_module_ids |-> SortById(st.overlay_ids),
                      magic_module_ids |-> SortById(st.magic_ids)]
    /\ plan_pc' = "done"
    /\ UNCHANGED <<inputVars, plan_modules>>
    /\ UNCHANGED outsidePlan

\* the staging trees of the planner's specification: <id>/system is absent,
\* an empty directory or a directory with content, <id>/vendor is absent or
\* a directory with content
PlanTrees ==
    {t \in [TreeParts -> {"none", "empty", "full"}] : t[PVendor] # "empty"}

\* one module: not in the inventory, in it without a staging directory, or
\* in it with a mode and a staging tree
PlanModuleOptions ==
    {[active |-> FALSE, exists |-> FALSE, mode |-> "auto", tree |-> NoTree],
     [active |-> TRUE,  exists |-> FALSE, mode |-> "auto", tree |-> NoTree]}
    \cup [active : {TRUE}, exists : {TRUE}, mode : {"auto", "magic"},
          tree : PlanTrees]

\* the inventory's order: ids descending (Z to A)
SortByIdDescending(ids) ==
    Reverse(SortById(ids))

InitPlan ==
    /\ \E inv \in [ModuleIds -> PlanModuleOptions] :
          LET act == {id \in ModuleIds : inv[id].active}
              ord == SortByIdDescending(act)
          IN  /\ plan_modules =
                    [i \in 1..Len(ord) |-> [id |-> ord[i], mode |-> inv[ord[i]].mode]]
              /\ fs = [id \in act |->
                          [exists |-> inv[id].exists, tree |-> inv[id].tree]]
    /\ config_partitions \in RunConfigs
    /\ plan_pc = "start"
    /\ plan = EmptyPlan
    /\ IdleRun
    /\ IdleOvl
    /\ IdleRest

NextPlan ==
    Generate

SpecPlan ==
    InitPlan /\ [][NextPlan]_vars

-----------------------------------------------------------------------------
(* mount_overlayfs *)

\* "KSU"
KSU_OVERLAY_SOURCE ==
    <<75, 83, 85>>

\* "/u" and "/w": the upperdir and workdir a caller may pass
UpperDirPath ==
    <<47, 117>>

WorkDirPath ==
    <<47, 119>>

\* upperdir.filter(|up| up.exists()) and the same for workdir: both are Some
BothDirs(args) ==
    args.upperdir = "exists" /\ args.workdir = "exists"

\* the calls of the fs-config closure, in order; each ends the closure with
\* its error when it fails
FsConfigSteps(args) ==
    <<"fsopen", "fsconfig_lowerdir">>
    \o (IF BothDirs(args) THEN <<"fsconfig_upperdir", "fsconfig_workdir">>
        ELSE <<>>)
    \o <<"fsconfig_source", "fsconfig_create", "fsmount", "move_mount">>

\* the string option a fsconfig_set_string call sets
StringOption(step, args) ==
    IF step = "fsconfig_lowerdir"
    THEN <<[key |-> "lowerdir",
            value |-> LowerdirConfig(args.lower_dirs, args.lowest)]>>
    ELSE IF step = "fsconfig_upperdir"
    THEN <<[key |-> "upperdir", value |-> UpperDirPath]>>
    ELSE IF step = "fsconfig_workdir"
    THEN <<[key |-> "workdir", value |-> WorkDirPath]>>
    ELSE IF step = "fsconfig_source"
    THEN <<[key |-> "source", value |-> KSU_OVERLAY_SOURCE]>>
    ELSE <<>>

\* the closure gave an error and nothing of it is passed on
AfterFsConfigNoFallback(ok) ==
    IF ok THEN "notify" ELSE "done"

\* if let Err(e) = result { ... mount(...)?; }: where control goes once the
\* closure has returned
AfterFsConfig(ok) ==
    IF ok THEN "notify" ELSE "legacy"

\* the data string of the legacy mount call:
\* "lowerdir=" <config> [",upperdir=" <upper> ",workdir=" <work>]
LegacyData(args) ==
    <<108, 111, 119, 101, 114, 100, 105, 114, 61>>
    \o LowerdirConfig(args.lower_dirs, args.lowest)
    \o (IF BothDirs(args)
        THEN <<44, 117, 112, 112, 101, 114, 100, 105, 114, 61>> \o UpperDirPath
             \o <<44, 119, 111, 114, 107, 100, 105, 114, 61>> \o WorkDirPath
        ELSE <<>>)

SysCall(call, ok) ==
    [call |-> call, ok |-> ok]

\* one call of the fs-config closure
OvlFsConfigStep ==
    /\ ovl_pc = "fsconfig"
    /\ \E ok \in BOOLEAN :
          LET steps == FsConfigSteps(ovl_args)
              step  == steps[ovl_step]
              last  == ovl_step = Len(steps)
              next  == IF ok /\ ~last THEN "fsconfig" ELSE AfterFsConfig(ok)
          IN  /\ ovl_trace' = Append(ovl_trace, SysCall(step, ok))
              /\ ovl_ctx' = IF ok THEN ovl_ctx \o StringOption(step, ovl_args)
                            ELSE <<>>
              /\ ovl_step' = IF ok /\ ~last THEN ovl_step + 1 ELSE ovl_step
              /\ mounts' = IF ok /\ last
                           THEN Append(mounts,
                                   [fstype |-> "overlay", via |-> "move_mount",
                                    dest |-> ovl_args.dest,
                                    options |-> ovl_ctx, data |-> <<>>])
                           ELSE mounts
              /\ ovl_pc' = next
              /\ ovl_result' = IF next = "done" THEN "err" ELSE ovl_result
    /\ UNCHANGED <<ovl_args, unmountable>>
    /\ UNCHANGED outsideOvl

\* the fallback: mount(KSU_OVERLAY_SOURCE, dest, "overlay", empty flags, data)?
OvlLegacyMount ==
    /\ ovl_pc = "legacy"
    /\ \E ok \in BOOLEAN :
          /\ ovl_trace' = Append(ovl_trace, SysCall("mount", ok))
          /\ mounts' = IF ok
                       THEN Append(mounts,
                               [fstype |-> "overlay", via |-> "mount",
                                dest |-> ovl_args.dest,
                                options |-> <<[key |-> "source",
                                               value |-> KSU_OVERLAY_SOURCE]>>,
                                data |-> LegacyData(ovl_args)])
                       ELSE mounts
          /\ ovl_pc' = IF ok THEN "notify" ELSE "done"
          /\ ovl_result' = IF ok THEN ovl_result ELSE "err"
    /\ UNCHANGED <<ovl_args, ovl_step, ovl_ctx, unmountable>>
    /\ UNCHANGED outsideOvl

\* if !disable_umount { let _ = send_unmountable(dest); } Ok(())
OvlNotify ==
    /\ ovl_pc = "notify"
    /\ IF ovl_args.disable_umount
       THEN UNCHANGED <<ovl_trace, unmountable>>
       ELSE \E ok \in BOOLEAN :
               /\ ovl_trace' = Append(ovl_trace, SysCall("send_unmountable", ok))
               /\ unmountable' = IF ok THEN Append(unmountable, ovl_args.dest)
                                 ELSE unmountable
    /\ ovl_pc' = "done"
    /\ ovl_result' = "ok"
    /\ UNCHANGED <<ovl_args, ovl_step, ovl_ctx, mounts>>
    /\ UNCHANGED outsideOvl

\* what a caller may pass for upperdir and workdir: None, a path that does
\* not exist, a path that exists
DirOptions ==
    {"none", "missing", "exists"}

\* the layer lists of the driver's specification: none, one module, two
LowerDirOptions ==
    {<<>>,
     <<PathJoin(ContentPath(IdA), PSystem)>>,
     <<PathJoin(ContentPath(IdB), PSystem), PathJoin(ContentPath(IdA), PSystem)>>}

InitOvl ==
    /\ ovl_args \in [lower_dirs : LowerDirOptions,
                     lowest : {TargetPath(PSystem)},
                     upperdir : DirOptions,
                     workdir : DirOptions,
                     dest : {TargetPath(PSystem)},
                     disable_umount : BOOLEAN]
    /\ ovl_pc = "fsconfig"
    /\ ovl_step = 1
    /\ ovl_ctx = <<>>
    /\ ovl_trace = <<>>
    /\ mounts = <<>>
    /\ unmountable = <<>>
    /\ ovl_result = "none"
    /\ IdleInputs
    /\ IdleRun
    /\ IdlePlan
    /\ IdleRest

NextOvl ==
    \/ OvlFsConfigStep
    \/ OvlLegacyMount
    \/ OvlNotify

SpecOvl ==
    InitOvl /\ [][NextOvl]_vars

-----------------------------------------------------------------------------
(* What engine::run did, read off its calls *)

CallIdx(op) ==
    {i \in 1..Len(calls) : calls[i].op = op}

\* module id has a directory for partition p in its content tree
Touches(id, p) ==
    id \in DOMAIN active_modules /\ ContentExists(id) /\ IsDir(id, p)

Touching(p) ==
    {id \in DOMAIN active_modules : Touches(id, p)}

\* some magic-mode module has content in p
MagicTouched(p) ==
    \E id \in Touching(p) : ModeOf(id) = "magic"

PartitionSet ==
    SeqToSet(AllPartitions)

\* the partition a mount_overlay call was made for: its target without "/"
PartOfCall(i) ==
    Tail(calls[i].target)

\* the id of the module whose content path is path
ModuleIdOf(path) ==
    CHOOSE id \in DOMAIN active_modules : active_modules[id] = path

RECURSIVE SplitAcc(_, _, _)
SplitAcc(s, sep, cur) ==
    IF s = <<>> THEN <<cur>>
    ELSE IF <<Head(s)>> = sep THEN <<cur>> \o SplitAcc(Tail(s), sep, <<>>)
    ELSE SplitAcc(Tail(s), sep, Append(cur, Head(s)))

\* the entries of a ':'-separated option string, as the kernel reads them
Split(s, sep) ==
    SplitAcc(s, sep, <<>>)

\* how often part occurs in the effective partition list
Occurrences(part) ==
    Cardinality({i \in 1..Len(AllPartitions) : AllPartitions[i] = part})

\* the mount_overlay calls: each hands its module_roots, with target_root
\* as lowest, to mount_overlayfs, which builds the lowerdir option from them
KernelCalls ==
    CallIdx("mount_overlay")

-----------------------------------------------------------------------------
(* C1 *)

\* C1: for every partition p that some active magic-mode module has content
\* in, run never calls mount_overlay for "/p", and every active module with
\* content in p is in the module list passed to mount_partitions.
C1_MagicPropagation ==
    \A i \in 1..Len(calls) :
        /\ calls[i].op = "mount_overlay" => ~MagicTouched(PartOfCall(i))
        /\ calls[i].op = "mount_partitions" =>
              \A p \in PartitionSet :
                  MagicTouched(p) =>
                      \A id \in Touching(p) :
                          ContentPath(id) \in SeqToSet(calls[i].roots)

\* a magic-mode and an auto-mode module share a partition, another partition
\* was overlay-mounted, and the magic mount has been called
C1_Witness ==
    /\ \E p \in PartitionSet :
          /\ MagicTouched(p)
          /\ \E id \in Touching(p) : ModeOf(id) = "auto"
    /\ CallIdx("mount_overlay") # {}
    /\ CallIdx("mount_partitions") # {}

-----------------------------------------------------------------------------
(* C2 *)

EnsureFailed ==
    /\ result = "err"
    /\ \E j \in CallIdx("ensure_temp_dir") : ~calls[j].ok

-----------------------------------------------------------------------------
(* C5 *)

\* the layer of module id for partition part, as run names it
Layer(id, part) ==
    PathJoin(ContentPath(id), part)

\* "A/system:B/system:C/system:/system"
StrAscendingABC ==
    <<65, 47, 115, 121, 115, 116, 101, 109, 58,
      66, 47, 115, 121, 115, 116, 101, 109, 58,
      67, 47, 115, 121, 115, 116, 101, 109, 58,
      47, 115, 121, 115, 116, 101, 109>>

\* "C/system:B/system:A/system:/system"
StrDescendingCBA ==
    <<67, 47, 115, 121, 115, 116, 101, 109, 58,
      66, 47, 115, 121, 115, 116, 101, 109, 58,
      65, 47, 115, 121, 115, 116, 101, 109, 58,
      47, 115, 121, 115, 116, 101, 109>>

\* the overlay mount of /system reached the kernel and the modules touching
\* /system are exactly A, B and C, all auto
LayerOrderCase(i) ==
    /\ calls[i].op = "mount_overlay"
    /\ calls[i].target = TargetPath(PSystem)
    /\ Touching(PSystem) = {IdA, IdB, IdC}
    /\ \A id \in Touching(PSystem) : ModeOf(id) = "auto"

\* C5 as stated: for auto modules A, B, C all touching /system the lowerdir
\* string handed to the kernel is "A/system:B/system:C/system:/system".
C5_Original ==
    \A i \in 1..Len(calls) :
        LayerOrderCase(i) => calls[i].lowerdir = StrAscendingABC

RECURSIVE Repeated(_, _)
\* every element of s, n times in a row
Repeated(s, n) ==
    IF s = <<>> THEN <<>>
    ELSE [i \in 1..n |-> Head(s)] \o Repeated(Tail(s), n)

\* C5 (amended): for auto modules A, B, C all touching /system the lowerdir
\* string handed to the kernel lists the module layers in id-descending
\* order, then the stock root: "C/system:B/system:A/system:/system" (each
\* module layer once per occurrence of "system" in the partition list).
C5_KernelLowerdirDescending ==
    \A i \in 1..Len(calls) :
        LayerOrderCase(i) =>
            /\ Occurrences(PSystem) = 1 => calls[i].lowerdir = StrDescendingCBA
            /\ Split(calls[i].lowerdir, Colon) =
                  Repeated(<<Layer(IdC, PSystem), Layer(IdB, PSystem),
                             Layer(IdA, PSystem)>>, Occurrences(PSystem))
                  \o <<TargetPath(PSystem)>>

\* the overlay mount of /system with layers of A, B and C reached the kernel
C5_Witness ==
    \E i \in 1..Len(calls) :
        /\ LayerOrderCase(i)
        /\ Occurrences(PSystem) = 1
        /\ calls[i].ok

-----------------------------------------------------------------------------
(* C6 *)

\* the greatest and the least id of a set of module ids
MaxId(ids) ==
    CHOOSE x \in ids : \A y \in ids \ {x} : StrLess(y, x)

MinId(ids) ==
    CHOOSE x \in ids : \A y \in ids \ {x} : StrLess(x, y)

\* C6: in the lowerdir string built for the kernel the first entry is the
\* layer of the highest-priority (greatest-id) module, the last module layer
\* is that of the smallest id, and the final entry is the stock partition
\* root; mount_overlayfs emits lower_dirs in the given order, then lowest,
\* joined by ':'.
C6_LowerdirTopFirst ==
    \A i \in KernelCalls :
        \A entries \in {Split(calls[i].lowerdir, Colon)} :
            \A ids \in {Touching(PartOfCall(i))} :
                /\ Len(entries) >= 2
                /\ entries[1] = Layer(MaxId(ids), PartOfCall(i))
                /\ entries[Len(entries) - 1] = Layer(MinId(ids), PartOfCall(i))
                /\ entries[Len(entries)] = TargetPath(PartOfCall(i))
                /\ entries = calls[i].roots \o <<calls[i].target>>

\* two auto modules share a partition whose overlay mount reached the kernel
C6_Witness ==
    \E i \in KernelCalls :
        /\ Cardinality(Touching(PartOfCall(i))) >= 2
        /\ calls[i].ok

-----------------------------------------------------------------------------
(* C7 *)

\* C7: every mount_overlay call of Pass 1 has returned before the magic
\* mount is invoked, no overlay mount is attempted after it, and the magic
\* mount is invoked at most once per run.
C7_PassOrder ==
    /\ \A i \in CallIdx("mount_partitions") :
          /\ \A j \in CallIdx("mount_overlay") : j < i
          /\ \A p \in DOMAIN partition_map :
                \/ MagicTouched(p)
                \/ \E j \in CallIdx("mount_overlay") :
                      j < i /\ calls[j].target = TargetPath(p)
    /\ Cardinality(CallIdx("mount_partitions")) <= 1
    /\ (pc \in {"ensure", "magic", "cleanup"}) => remaining = {}

\* two overlay mounts were attempted, then the magic mount ran
C7_Witness ==
    /\ Cardinality(CallIdx("mount_overlay")) >= 2
    /\ CallIdx("mount_partitions") # {}
    /\ pc = "done"

-----------------------------------------------------------------------------
(* C8 *)

\* C8: the module list passed to mount_partitions is in strictly ascending
\* module-id order and holds no path twice.
C8_ModuleListAscending ==
    \A i \in CallIdx("mount_partitions") :
        LET list == calls[i].roots
        IN  /\ \A a, b \in 1..Len(list) :
                  a < b => StrLess(ModuleIdOf(list[a]), ModuleIdOf(list[b]))
            /\ Cardinality(SeqToSet(list)) = Len(list)
            /\ SeqToSet(list) = magic_modules

\* the magic mount was called with at least two modules
C8_Witness ==
    \E i \in CallIdx("mount_partitions") : Len(calls[i].roots) >= 2

-----------------------------------------------------------------------------
(* C9 *)

\* C9 as stated: once run has entered the magic pass (magic_modules is not
\* empty), the temp directory has been cleaned up when run returns, whether
\* the magic mount succeeded or failed or ensure_temp_dir failed.
C9_CleanupOnEveryExit ==
    (pc = "done" /\ magic_modules # {}) => CallIdx("cleanup_temp_dir") # {}

-----------------------------------------------------------------------------
(* C3 *)

\* module id has content for partition p in staging
StagedContent(id, p) ==
    ContentExists(id) /\ Participates(id, p)

\* C3 as stated: in every plan generate returns, a partition p that some
\* magic-mode module has content in has no OverlayOperation with target "/p".
C3_PlanMagicPropagation ==
    plan_pc = "done" =>
        \A p \in SeqToSet(TargetPartitions) :
            (\E i \in 1..Len(plan_modules) :
                /\ plan_modules[i].mode = "magic"
                /\ StagedContent(plan_modules[i].id, p))
            => \A k \in 1..Len(plan.overlay_ops) :
                  plan.overlay_ops[k].target # TargetPath(p)

-----------------------------------------------------------------------------
(* C4 *)

RECURSIVE LayersInInputOrder(_, _)
\* the layers of the auto modules with content in p, in the order of ms
LayersInInputOrder(ms, p) ==
    IF ms = <<>> THEN <<>>
    ELSE (IF Head(ms).mode # "magic" /\ StagedContent(Head(ms).id, p)
          THEN <<PathJoin(StagingPath(Head(ms).id), p)>> ELSE <<>>)
         \o LayersInInputOrder(Tail(ms), p)

\* C4 as stated: every OverlayOperation's lowerdirs lists the layers
\* staging/<id>/<partition> of the participating auto modules in the order of
\* the input list (id descending), each participating module exactly once.
C4_LowerdirsInInputOrder ==
    plan_pc = "done" =>
        \A k \in 1..Len(plan.overlay_ops) :
            \A p \in SeqToSet(TargetPartitions) :
                plan.overlay_ops[k].target = TargetPath(p) =>
                    plan.overlay_ops[k].lowerdirs =
                        LayersInInputOrder(plan_modules, p)

-----------------------------------------------------------------------------
(* C10 *)

FsConfigCalls ==
    {"fsopen", "fsconfig_lowerdir", "fsconfig_upperdir", "fsconfig_workdir",
     "fsconfig_source", "fsconfig_create", "fsmount", "move_mount"}

\* some call of the fs-config sequence failed
FsConfigFailed ==
    \E i \in 1..Len(ovl_trace) :
        ovl_trace[i].call \in FsConfigCalls /\ ~ovl_trace[i].ok

LegacyAttempted ==
    \E i \in 1..Len(ovl_trace) : ovl_trace[i].call = "mount"

LegacyFailed ==
    \E i \in 1..Len(ovl_trace) :
        ovl_trace[i].call = "mount" /\ ~ovl_trace[i].ok

\* C10: mount_overlayfs attempts the legacy mount if and only if a call of
\* the fs-config sequence failed; it returns an error if and only if both
\* the fs-config path and the legacy mount failed; on success exactly one
\* overlay mount has been placed on dest.
C10_LegacyFallback ==
    /\ LegacyAttempted => FsConfigFailed
    /\ Cardinality({i \in 1..Len(ovl_trace) : ovl_trace[i].call = "mount"}) <= 1
    /\ ovl_pc \in {"notify", "done"} =>
          /\ FsConfigFailed => LegacyAttempted
          /\ (ovl_result = "err") <=> (FsConfigFailed /\ LegacyFailed)
          /\ (ovl_pc = "done" /\ ovl_result # "err") => ovl_result = "ok"
    /\ ovl_result = "ok" =>
          /\ Len(mounts) = 1
          /\ mounts[1].fstype = "overlay"
          /\ mounts[1].dest = ovl_args.dest
    /\ ovl_result = "err" => mounts = <<>>

\* move_mount failed, the legacy mount succeeded, and the function returned Ok
C10_Witness ==
    /\ ovl_result = "ok"
    /\ \E i \in 1..Len(ovl_trace) :
          ovl_trace[i].call = "move_mount" /\ ~ovl_trace[i].ok
    /\ LegacyAttempted
    /\ Len(mounts) = 1

-----------------------------------------------------------------------------
(* mount_overlay, mount_overlay_child and bind_mount *)

\* how many mount points lie below target_root before the call
MaxChildMounts == 2

\* "." : stock_root, the directory mount_overlay holds as its cwd
Dot ==
    <<46>>

\* "/": the working directory of the process before the call
RootDir ==
    <<47>>

\* the k-th candidate child mount point: "/system/a", "/system/b", ...
ChildMount(k) ==
    TargetPath(PSystem) \o <<47, 96 + k>>

\* the same child seen from the held stock root: "./a", "./b", ...
StockKey(k) ==
    <<46, 47, 96 + k>>

\* the same child inside a module root: "<root>/a", "<root>/b", ...
RootKey(root, k) ==
    root \o <<47, 96 + k>>

\* the non-empty components of a path
Components(path) ==
    SelectSeq(Split(path, Slash), LAMBDA c : c # <<>>)

PathStartsWith(path, base) ==
    \A cp \in {Components(path)} :
        \A cb \in {Components(base)} :
            /\ Len(cp) >= Len(cb)
            /\ SubSeq(cp, 1, Len(cb)) = cb

\* str::replacen(pat, "", 1): the first occurrence of pat removed
Replacen1(str, pat) ==
    LET hits == {i \in 1..(Len(str) - Len(pat) + 1) :
                    SubSeq(str, i, i + Len(pat) - 1) = pat}
    IN  IF hits = {} THEN str
        ELSE LET i == CHOOSE h \in hits : \A g \in hits : h <= g
             IN  SubSeq(str, 1, i - 1) \o SubSeq(str, i + Len(pat), Len(str))

RECURSIVE TrimStartSlashes(_)
\* str::trim_start_matches('/')
TrimStartSlashes(str) ==
    IF str # <<>> /\ Head(str) = 47 THEN TrimStartSlashes(Tail(str))
    ELSE str

RECURSIVE InsertSorted(_, _)
InsertSorted(str, sorted) ==
    IF sorted = <<>> THEN <<str>>
    ELSE IF StrLess(Head(sorted), str)
    THEN <<Head(sorted)>> \o InsertSorted(str, Tail(sorted))
    ELSE <<str>> \o sorted

RECURSIVE SortStrings(_)
\* Vec<String>::sort
SortStrings(strs) ==
    IF strs = <<>> THEN <<>>
    ELSE InsertSorted(Head(strs), SortStrings(Tail(strs)))

RECURSIVE Dedup(_)
\* Vec::dedup: consecutive equal elements collapse to one
Dedup(strs) ==
    IF Len(strs) <= 1 THEN strs
    ELSE IF strs[1] = strs[2] THEN Dedup(Tail(strs))
    ELSE <<strs[1]>> \o Dedup(Tail(strs))

\* the filter of mount_seq: strictly underneath target_root
IsChildMount(mount_point, target_root) ==
    /\ PathStartsWith(mount_point, target_root)
    /\ mount_point # target_root

\* mount_seq: the filtered mount points, sorted, without repetitions
MountSeq(mountinfo, target_root) ==
    Dedup(SortStrings(
        SelectSeq(mountinfo, LAMBDA m : IsChildMount(m, target_root))))

\* what a path is on disk: "none", "file" or "dir"
KindAt(path) ==
    IF path \in DOMAIN mo_tree THEN mo_tree[path] ELSE "none"

\* Path::new(lower).join(relative.trim_start_matches('/'))
ChildIn(lower, relative) ==
    PathJoin(lower, TrimStartSlashes(relative))

\* one entry of mo_events
Event(ev, fn, path, from, ok) ==
    [ev |-> ev, fn |-> fn, path |-> path, from |-> from, ok |-> ok]

\* the sink is notified whatever the flag says
NotifyEventsAlways(dest, disable_umount, sent) ==
    <<Event("send", "send_unmountable", dest, <<>>, sent)>>

\* if !disable_umount { let _ = send_unmountable(dest); }
NotifyEvents(dest, disable_umount, sent) ==
    IF ~disable_umount
    THEN <<Event("send", "send_unmountable", dest, <<>>, sent)>>
    ELSE <<>>

\* one call of mount_overlayfs(lower_dirs, lowest, None, None, dest, flag):
\* mounted says whether the fs-config sequence or the legacy mount placed the
\* overlay, sent whether the sink took the path
MountOverlayfsEvents(lower_dirs, lowest, dest, disable_umount, mounted, sent) ==
    <<Event("call", "mount_overlayfs", dest, lower_dirs \o <<lowest>>, TRUE)>>
    \o (IF mounted
        THEN <<Event("mount", "overlay", dest, lower_dirs \o <<lowest>>, TRUE)>>
             \o NotifyEvents(dest, disable_umount, sent)
        ELSE <<>>)
    \o <<Event("return", "mount_overlayfs", dest, <<>>, mounted)>>

\* one call of bind_mount(from, to, flag): open_tree and move_mount both
\* return early with `?`
BindMountEvents(from, to, disable_umount, mounted, sent) ==
    <<Event("call", "bind_mount", to, <<from>>, TRUE)>>
    \o (IF mounted
        THEN <<Event("mount", "bind", to, <<from>>, TRUE)>>
             \o NotifyEvents(to, disable_umount, sent)
        ELSE <<>>)
    \o <<Event("return", "bind_mount", to, <<>>, mounted)>>

\* module_roots.iter().any(|lower| lower.join(relative).exists())
HasModification(module_roots, relative) ==
    \E i \in 1..Len(module_roots) :
        KindAt(ChildIn(module_roots[i], relative)) # "none"

RECURSIVE CollectLowerDirs(_, _)
\* the loop without its else branch: a non-directory is passed over
CollectLowerDirsSkipFiles(module_roots, relative) ==
    [shadowed |-> FALSE,
     dirs |-> SelectSeq([i \in 1..Len(module_roots) |->
                            ChildIn(module_roots[i], relative)],
                        LAMBDA path : KindAt(path) = "dir")]

\* the loop that collects lower_dirs: a directory is pushed, anything else
\* that exists ends the function with Ok
CollectLowerDirs(module_roots, relative) ==
    IF module_roots = <<>> THEN [shadowed |-> FALSE, dirs |-> <<>>]
    ELSE LET path == ChildIn(Head(module_roots), relative)
         IN  IF KindAt(path) = "dir"
             THEN LET rest == CollectLowerDirs(Tail(module_roots), relative)
                  IN  [shadowed |-> rest.shadowed,
                       dirs |-> IF rest.shadowed THEN <<>>
                                ELSE <<path>> \o rest.dirs]
             ELSE IF KindAt(path) # "none"
             THEN [shadowed |-> TRUE, dirs |-> <<>>]
             ELSE CollectLowerDirs(Tail(module_roots), relative)

\* the failed child overlay is the result of the function
ChildFallbackNone(mount_point, stock_root, flag, o) ==
    [events |-> <<>>, ok |-> FALSE]

\* the Err arm of the child overlay: bind_mount(stock_root, mount_point, ..)?
ChildFallback(mount_point, stock_root, flag, o) ==
    [events |-> BindMountEvents(stock_root, mount_point, flag, o.bind, o.sent),
     ok |-> o.bind]

\* what one call of mount_overlay_child does: its events and its result.
\* o gives the outcomes of the calls it may make: o.overlay and o.bind say
\* whether the mount was placed, o.sent whether the sink took the path.
\* A child no module modifies is left as the root overlay covers it.
ChildNoRestore(mount_point, relative, module_roots, stock_root, flag, o) ==
    [events |-> <<>>, ok |-> TRUE]

MountOverlayChild(mount_point, relative, module_roots, stock_root, flag, o) ==
    IF ~HasModification(module_roots, relative)
    THEN [events |-> BindMountEvents(stock_root, mount_point, flag,
                                     o.bind, o.sent),
          ok |-> o.bind]
    ELSE IF KindAt(stock_root) # "dir"
    THEN [events |-> <<>>, ok |-> TRUE]
    ELSE LET lower == CollectLowerDirs(module_roots, relative)
         IN  IF lower.shadowed \/ lower.dirs = <<>>
             THEN [events |-> <<>>, ok |-> TRUE]
             ELSE IF o.overlay
             THEN [events |-> MountOverlayfsEvents(lower.dirs, stock_root,
                                  mount_point, flag, TRUE, o.sent),
                   ok |-> TRUE]
             ELSE LET fallback == ChildFallback(mount_point, stock_root,
                                                flag, o)
                  IN  [events |-> MountOverlayfsEvents(lower.dirs, stock_root,
                                      mount_point, flag, FALSE, o.sent)
                                  \o fallback.events,
                       ok |-> fallback.ok]

\* the outcomes of the mounts one child restoration may attempt
ChildOutcomes ==
    [overlay : BOOLEAN, bind : BOOLEAN, sent : BOOLEAN]

\* std::env::set_current_dir(target_root)?
MoChdir ==
    /\ mo_pc = "chdir"
    /\ \E ok \in BOOLEAN :
          /\ mo_events' = Append(mo_events,
                 Event("chdir", "set_current_dir", mo_args.target_root,
                       <<>>, ok))
          /\ mo_cwd' = IF ok THEN mo_args.target_root ELSE mo_cwd
          /\ mo_pc' = IF ok THEN "mountinfo" ELSE "done"
          /\ mo_result' = IF ok THEN mo_result ELSE "err"
    /\ UNCHANGED <<mo_args, mo_mountinfo, mo_tree, mo_seq>>
    /\ UNCHANGED outsideMo

\* Process::myself()?.mountinfo()?, then the filter, sort and dedup
MoMountinfo ==
    /\ mo_pc = "mountinfo"
    /\ \E ok \in BOOLEAN :
          /\ mo_events' = Append(mo_events,
                 Event("mountinfo", "mountinfo", <<>>, <<>>, ok))
          /\ mo_seq' = IF ok THEN MountSeq(mo_mountinfo, mo_args.target_root)
                       ELSE mo_seq
          /\ mo_pc' = IF ok THEN "root" ELSE "done"
          /\ mo_result' = IF ok THEN mo_result ELSE "err"
    /\ UNCHANGED <<mo_args, mo_mountinfo, mo_tree, mo_cwd>>
    /\ UNCHANGED outsideMo

\* the root overlay whose result is that of the notification: an overlay
\* the sink refused stays mounted and the call returns the error
MoRootOverlaySendChecked ==
    /\ mo_pc = "root"
    /\ \E mounted, sent \in BOOLEAN :
          /\ mo_events' = mo_events \o
                 MountOverlayfsEvents(mo_args.module_roots,
                     mo_args.target_root, mo_args.target_root,
                     mo_args.disable_umount, mounted, sent)
          /\ mo_pc' = IF mounted /\ sent THEN "children" ELSE "done"
          /\ mo_result' = IF mounted /\ sent THEN mo_result ELSE "err"
    /\ UNCHANGED <<mo_args, mo_mountinfo, mo_tree, mo_seq, mo_cwd>>
    /\ UNCHANGED outsideMo

\* mount_overlayfs(module_roots, target_root, upperdir, workdir, target_root,
\* disable_umount)?
MoRootOverlay ==
    /\ mo_pc = "root"
    /\ \E mounted, sent \in BOOLEAN :
          /\ mo_events' = mo_events \o
                 MountOverlayfsEvents(mo_args.module_roots,
                     mo_args.target_root, mo_args.target_root,
                     mo_args.disable_umount, mounted, sent)
          /\ mo_pc' = IF mounted THEN "children" ELSE "done"
          /\ mo_result' = IF mounted THEN mo_result ELSE "err"
    /\ UNCHANGED <<mo_args, mo_mountinfo, mo_tree, mo_seq, mo_cwd>>
    /\ UNCHANGED outsideMo

\* the error of one child ends the loop
AfterChildBail(ok, rest) ==
    IF ok THEN rest ELSE <<>>

\* if let Err(e) = mount_overlay_child(..) { warn!(..) }: the loop goes on
AfterChild(ok, rest) ==
    rest

\* one iteration of the child-restoration loop
MoChild ==
    /\ mo_pc = "children"
    /\ mo_seq # <<>>
    /\ \E relative \in {Replacen1(Head(mo_seq), mo_args.target_root)} :
          \E stock \in {Dot \o relative} :
              IF KindAt(stock) = "none"
              THEN /\ mo_events' = mo_events
                   /\ mo_seq' = Tail(mo_seq)
              ELSE \E o \in ChildOutcomes :
                      \E r \in {MountOverlayChild(Head(mo_seq), relative,
                                    mo_args.module_roots, stock,
                                    mo_args.disable_umount, o)} :
                          /\ mo_events' = mo_events
                                \o <<Event("call", "mount_overlay_child",
                                           Head(mo_seq), <<stock>>, TRUE)>>
                                \o r.events
                                \o <<Event("return", "mount_overlay_child",
                                           Head(mo_seq), <<>>, r.ok)>>
                          /\ mo_seq' = AfterChild(r.ok, Tail(mo_seq))
    /\ UNCHANGED <<mo_args, mo_mountinfo, mo_tree, mo_pc, mo_cwd, mo_result>>
    /\ UNCHANGED outsideMo

\* Ok(()) once mount_seq is exhausted
MoReturn ==
    /\ mo_pc = "children"
    /\ mo_seq = <<>>
    /\ mo_pc' = "done"
    /\ mo_result' = "ok"
    /\ UNCHANGED <<mo_args, mo_mountinfo, mo_tree, mo_seq, mo_cwd, mo_events>>
    /\ UNCHANGED outsideMo

\* the two module roots run passes for /system, highest priority first
MoModuleRoots ==
    <<PathJoin(ContentPath(IdB), PSystem), PathJoin(ContentPath(IdA), PSystem)>>

\* a child of target_root before the call: is it a mount point, what is the
\* stock child, what is the same path in each of the two module roots
ChildOptions ==
    {[listed |-> FALSE, stock |-> "dir",  r1 |-> "none", r2 |-> "none"],
     [listed |-> TRUE,  stock |-> "none", r1 |-> "dir",  r2 |-> "none"],
     [listed |-> TRUE,  stock |-> "file", r1 |-> "none", r2 |-> "none"],
     [listed |-> TRUE,  stock |-> "file", r1 |-> "file", r2 |-> "none"],
     [listed |-> TRUE,  stock |-> "dir",  r1 |-> "none", r2 |-> "none"],
     [listed |-> TRUE,  stock |-> "dir",  r1 |-> "none", r2 |-> "dir"],
     [listed |-> TRUE,  stock |-> "dir",  r1 |-> "dir",  r2 |-> "dir"],
     [listed |-> TRUE,  stock |-> "dir",  r1 |-> "file", r2 |-> "dir"],
     [listed |-> TRUE,  stock |-> "dir",  r1 |-> "dir",  r2 |-> "file"]}

RECURSIVE ListedDescending(_, _)
\* the listed children from the k-th down to the first
ListedDescending(ch, k) ==
    IF k = 0 THEN <<>>
    ELSE (IF ch[k].listed THEN <<ChildMount(k)>> ELSE <<>>)
         \o ListedDescending(ch, k - 1)

\* /proc/self/mountinfo before the call: "/", "/system_ext", target_root
\* itself, the listed children in descending order, the first of them again
MountinfoOf(ch) ==
    LET listed == ListedDescending(ch, MaxChildMounts)
    IN  <<RootDir, TargetPath(BUILTIN_PARTITIONS[4]), TargetPath(PSystem)>>
        \o listed
        \o (IF listed = <<>> THEN <<>> ELSE <<listed[Len(listed)]>>)

\* the kinds of the paths below the stock root and the module roots
TreeOf(ch) ==
    LET keys == UNION {{StockKey(k), RootKey(MoModuleRoots[1], k),
                        RootKey(MoModuleRoots[2], k)} : k \in 1..MaxChildMounts}
        kind(path) ==
            LET k == CHOOSE j \in 1..MaxChildMounts :
                         path \in {StockKey(j), RootKey(MoModuleRoots[1], j),
                                   RootKey(MoModuleRoots[2], j)}
            IN  IF path = StockKey(k) THEN ch[k].stock
                ELSE IF path = RootKey(MoModuleRoots[1], k) THEN ch[k].r1
                ELSE ch[k].r2
    IN  [path \in keys |-> kind(path)]

InitMo ==
    /\ \E ch \in [1..MaxChildMounts -> ChildOptions] :
          /\ mo_mountinfo = MountinfoOf(ch)
          /\ mo_tree = TreeOf(ch)
    /\ mo_args \in [target_root : {TargetPath(PSystem)},
                    module_roots : {MoModuleRoots},
                    disable_umount : BOOLEAN]
    /\ mo_pc = "chdir"
    /\ mo_seq = <<>>
    /\ mo_cwd = RootDir
    /\ mo_events = <<>>
    /\ mo_result = "none"
    /\ IdleInputs
    /\ IdleRun
    /\ IdlePlan
    /\ IdleOvl
    /\ IdleScan
    /\ IdleSync
    /\ IdleDesc

NextMo ==
    \/ MoChdir
    \/ MoMountinfo
    \/ MoRootOverlay
    \/ MoChild
    \/ MoReturn

SpecMo ==
    InitMo /\ [][NextMo]_vars

-----------------------------------------------------------------------------
(* What mount_overlay did, read off its events *)

\* the calls of mount_overlayfs and of bind_mount
MountCalls ==
    {i \in 1..Len(mo_events) :
        /\ mo_events[i].ev = "call"
        /\ mo_events[i].fn \in {"mount_overlayfs", "bind_mount"}}

\* where the call at i returned
ReturnOf(i) ==
    CHOOSE r \in (i + 1)..Len(mo_events) :
        /\ mo_events[r].ev = "return"
        /\ mo_events[r].fn = mo_events[i].fn
        /\ \A q \in (i + 1)..(r - 1) :
              ~(mo_events[q].ev = "return" /\ mo_events[q].fn = mo_events[i].fn)

\* the mounts the call at i placed and the notifications it sent
MountsOf(i) ==
    {j \in i..ReturnOf(i) :
        mo_events[j].ev = "mount" /\ mo_events[j].path = mo_events[i].path}

SendsOf(i) ==
    {j \in i..ReturnOf(i) :
        mo_events[j].ev = "send" /\ mo_events[j].path = mo_events[i].path}

\* the children of target_root that are mount points before the call
ListedChildren ==
    {k \in 1..MaxChildMounts :
        \E i \in 1..Len(mo_mountinfo) : mo_mountinfo[i] = ChildMount(k)}

\* the root overlay of this call is in place
RootOverlayAt(i) ==
    /\ mo_events[i].ev = "mount"
    /\ mo_events[i].fn = "overlay"
    /\ mo_events[i].path = mo_args.target_root

RootOverlayMounted ==
    \E i \in 1..Len(mo_events) : RootOverlayAt(i)

\* the restoration of child k was attempted
ChildAttempted(k) ==
    \E i \in 1..Len(mo_events) :
        /\ mo_events[i].ev = "call"
        /\ mo_events[i].fn = "mount_overlay_child"
        /\ mo_events[i].path = ChildMount(k)

-----------------------------------------------------------------------------
(* C11 *)

\* C11: a call of mount_overlayfs or bind_mount passes its destination to
\* send_unmountable exactly once if the mount succeeded and disable_umount is
\* false, and not at all otherwise; the notification comes after the mount
\* is in place, and the call returns Ok exactly when the mount was placed,
\* whatever send_unmountable returned.
C11_NotifyOncePerMount ==
    \A i \in MountCalls :
        \A r \in {ReturnOf(i)} :
            /\ Cardinality(SendsOf(i)) =
                  (IF mo_events[r].ok /\ ~mo_args.disable_umount THEN 1 ELSE 0)
            /\ \A j \in SendsOf(i) : \E m \in MountsOf(i) : m < j
            /\ mo_events[r].ok = (MountsOf(i) # {})

\* a bind mount and an overlay mount both succeeded although the sink
\* refused the path of the bind mount
C11_Witness ==
    /\ \E i \in MountCalls :
          /\ mo_events[i].fn = "bind_mount"
          /\ mo_events[ReturnOf(i)].ok
          /\ \E j \in SendsOf(i) : ~mo_events[j].ok
    /\ \E i \in MountCalls :
          /\ mo_events[i].fn = "mount_overlayfs"
          /\ mo_events[ReturnOf(i)].ok
          /\ SendsOf(i) # {}

-----------------------------------------------------------------------------
(* C12 *)

\* child k is a mount point below target_root, its stock child exists and no
\* module root has anything at the same relative path
UntouchedChild(k) ==
    /\ k \in ListedChildren
    /\ mo_tree[StockKey(k)] # "none"
    /\ \A i \in 1..Len(mo_args.module_roots) :
          mo_tree[RootKey(mo_args.module_roots[i], k)] = "none"

\* C12: once mount_overlay has returned with the root overlay mounted, every
\* listed child whose stock child exists and that no module root modifies has
\* had bind_mount(stock_child, mp) called after the root overlay mount.
C12_ChildRestored ==
    (mo_pc = "done" /\ RootOverlayMounted) =>
        \A k \in 1..MaxChildMounts :
            UntouchedChild(k) =>
                \E i, j \in 1..Len(mo_events) :
                    /\ RootOverlayAt(i)
                    /\ i < j
                    /\ mo_events[j].ev = "call"
                    /\ mo_events[j].fn = "bind_mount"
                    /\ mo_events[j].path = ChildMount(k)
                    /\ mo_events[j].from = <<StockKey(k)>>

\* mount_overlay returned after restoring an unmodified child by a bind mount
C12_Witness ==
    /\ mo_pc = "done"
    /\ RootOverlayMounted
    /\ \E k \in 1..MaxChildMounts :
          /\ UntouchedChild(k)
          /\ \E j \in 1..Len(mo_events) :
                /\ mo_events[j].ev = "mount"
                /\ mo_events[j].fn = "bind"
                /\ mo_events[j].path = ChildMount(k)

-----------------------------------------------------------------------------
(* C13 *)

\* C13: once the root overlay is mounted mount_overlay returns Ok, and by
\* then the restoration of every listed child whose stock child exists has
\* been attempted, whether or not the restoration of an earlier child failed.
C13_ChildFailuresSwallowed ==
    /\ RootOverlayMounted => mo_result # "err"
    /\ (mo_pc = "done" /\ RootOverlayMounted) =>
          /\ mo_result = "ok"
          /\ \A k \in ListedChildren :
                mo_tree[StockKey(k)] # "none" => ChildAttempted(k)

\* the restoration of one child failed, that of a later child was attempted,
\* and mount_overlay returned Ok
C13_Witness ==
    /\ mo_result = "ok"
    /\ \E i, j \in 1..Len(mo_events) :
          /\ i < j
          /\ mo_events[i].ev = "return"
          /\ mo_events[i].fn = "mount_overlay_child"
          /\ ~mo_events[i].ok
          /\ mo_events[j].ev = "call"
          /\ mo_events[j].fn = "mount_overlay_child"

-----------------------------------------------------------------------------
(* C24 *)

\* some module root has a non-directory at the relative path of child k
Shadowed(k) ==
    \E i \in 1..Len(mo_args.module_roots) :
        mo_tree[RootKey(mo_args.module_roots[i], k)] = "file"

\* the calls of mount_overlayfs and bind_mount made for child k, and the
\* mounts placed on it
ChildMountEvents(k) ==
    {j \in 1..Len(mo_events) :
        /\ mo_events[j].path = ChildMount(k)
        /\ mo_events[j].fn \in {"mount_overlayfs", "bind_mount", "overlay",
                                "bind"}}

\* where mount_overlay_child returned for child k
ChildReturns(k) ==
    {j \in 1..Len(mo_events) :
        /\ mo_events[j].ev = "return"
        /\ mo_events[j].fn = "mount_overlay_child"
        /\ mo_events[j].path = ChildMount(k)}

-----------------------------------------------------------------------------
(* C25 *)

\* the calls of fn made on the mount point of child k
ChildCalls(k, fn) ==
    {i \in MountCalls :
        mo_events[i].fn = fn /\ mo_events[i].path = ChildMount(k)}

\* the mounts placed on the mount point of child k
ChildMounts(k) ==
    {j \in 1..Len(mo_events) :
        mo_events[j].ev = "mount" /\ mo_events[j].path = ChildMount(k)}

\* C25: when the overlay mount of a child (some module root has its path as
\* a directory) fails, bind_mount(stock_child, mount point) is called next;
\* mount_overlay_child returns an error only if that bind mount fails too, a
\* successful child overlay is followed by no bind mount, and at most one
\* mount from the call is on the mount point.
C25_ChildOverlayFallback ==
    \A k \in 1..MaxChildMounts :
        \A i \in ChildCalls(k, "mount_overlayfs") :
            \A r \in {ReturnOf(i)} :
                /\ \E root \in 1..Len(mo_args.module_roots) :
                      mo_tree[RootKey(mo_args.module_roots[root], k)] = "dir"
                /\ Cardinality(ChildMounts(k)) <= 1
                /\ mo_events[r].ok => ChildCalls(k, "bind_mount") = {}
                /\ (~mo_events[r].ok /\ Len(mo_events) > r) =>
                      /\ mo_events[r + 1].ev = "call"
                      /\ mo_events[r + 1].fn = "bind_mount"
                      /\ mo_events[r + 1].path = ChildMount(k)
                      /\ mo_events[r + 1].from = <<StockKey(k)>>
                /\ \A c \in ChildReturns(k) :
                      mo_events[c].ok =
                          \/ mo_events[r].ok
                          \/ \E b \in ChildCalls(k, "bind_mount") :
                                mo_events[ReturnOf(b)].ok

\* the overlay mount of a child failed and the bind mount that followed
\* succeeded; for another child both failed
C25_Witness ==
    /\ \E k \in 1..MaxChildMounts :
          \E i \in ChildCalls(k, "mount_overlayfs") :
              /\ ~mo_events[ReturnOf(i)].ok
              /\ \E j \in ChildMounts(k) : mo_events[j].fn = "bind"
              /\ \E c \in ChildReturns(k) : mo_events[c].ok
    /\ \E k \in 1..MaxChildMounts :
          \E i \in ChildCalls(k, "mount_overlayfs") :
              /\ ~mo_events[ReturnOf(i)].ok
              /\ ChildMounts(k) = {}
              /\ \E c \in ChildReturns(k) : ~mo_events[c].ok

-----------------------------------------------------------------------------
(* C27 *)

\* C27: when mount_overlay has returned, on whichever path, the working
\* directory of the process is the one it was before the call (the root
\* directory in every run of this specification).
C27_CwdRestored ==
    mo_pc = "done" => mo_cwd = RootDir

-----------------------------------------------------------------------------
(* C29 *)

\* the mounts the call has placed, on the root or on a child
MountsPlaced ==
    {j \in 1..Len(mo_events) : mo_events[j].ev = "mount"}

\* C29: when mount_overlay returns an error it has placed no mount, neither
\* the root overlay nor an overlay or bind mount of a child.
C29_NoMountOnError ==
    mo_result = "err" => MountsPlaced = {}

\* mount_overlay returned the error of the root overlay mount, with child
\* mount points collected before it
C29_Witness ==
    /\ mo_result = "err"
    /\ mo_seq # <<>>
    /\ \E i \in MountCalls :
          /\ mo_events[i].fn = "mount_overlayfs"
          /\ mo_events[i].path = mo_args.target_root
          /\ ~mo_events[ReturnOf(i)].ok

-----------------------------------------------------------------------------
(* scanner::scan_active_modules *)

\* "meta-hybrid"
MetaHybrid ==
    <<109, 101, 116, 97, 45, 104, 121, 98, 114, 105, 100>>

\* "lost+found"
LostFound ==
    <<108, 111, 115, 116, 43, 102, 111, 117, 110, 100>>

\* "meta-hybrid/mnt" below MODULE_CONTENT_DIR
MntBaseDir ==
    PathJoin(<<>>, MetaHybrid \o <<47, 109, 110, 116>>)

\* the names an entry of the two scanned directories may have
ScanNames ==
    {IdA, IdB, MetaHybrid, LostFound}

\* DISABLE_FILE_NAME, REMOVE_FILE_NAME, SKIP_MOUNT_FILE_NAME: an entry of
\* kind "disable", "remove" or "skip_mount" is a directory holding that file
Markers ==
    {"disable", "remove", "skip_mount"}

\* entry.path().is_dir()
IsDirEntry(kind) ==
    kind \in {"dir"} \cup Markers

\* the body of the loop of scan_enabled_module_ids: a directory that is not
\* "meta-hybrid" and holds no marker file
KeepsId(dir, id) ==
    /\ IsDirEntry(dir.entries[id])
    /\ id # MetaHybrid
    /\ dir.entries[id] \notin Markers

\* scan_enabled_module_ids(metadata_dir): Ok(ids), or the error of read_dir
\* or of one of its entries
ScanEnabledModuleIds(dir) ==
    IF ~dir.exists THEN [ok |-> TRUE, ids |-> {}]
    ELSE IF dir.error # "none" THEN [ok |-> FALSE, ids |-> {}]
    ELSE [ok |-> TRUE, ids |-> {id \in DOMAIN dir.entries : KeepsId(dir, id)}]

\* the entries of the mnt directory the second loop inserts: every directory,
\* when the directory exists and read_dir gives its entries
MntDirs(dir) ==
    IF dir.exists /\ dir.error = "none"
    THEN {id \in DOMAIN dir.entries : dir.entries[id] = "dir"}
    ELSE {}

\* step 1.1: the standard modules of the metadata directory
ScanMetadata ==
    /\ scan_pc = "metadata"
    /\ \E r \in {ScanEnabledModuleIds(scan_meta)} :
          /\ scan_map' = [id \in r.ids |-> ContentPath(id)]
          /\ scan_pc' = IF r.ok THEN "mnt" ELSE "done"
          /\ scan_result' = IF r.ok THEN scan_result ELSE "err"
    /\ UNCHANGED <<scan_meta, scan_mnt>>
    /\ UNCHANGED outsideScan

\* step 1.2: active_modules.entry(id).or_insert(entry.path()) for every
\* directory of the mnt directory, then Ok(active_modules)
ScanMnt ==
    /\ scan_pc = "mnt"
    /\ scan_map' = [id \in DOMAIN scan_map \cup MntDirs(scan_mnt) |->
                       IF id \in DOMAIN scan_map THEN scan_map[id]
                       ELSE PathJoin(MntBaseDir, id)]
    /\ scan_pc' = "done"
    /\ scan_result' = "ok"
    /\ UNCHANGED <<scan_meta, scan_mnt>>
    /\ UNCHANGED outsideScan

\* the entries a metadata directory may hold
MetaEntries ==
    {e \in [ScanNames -> {"none", "file", "dir"} \cup Markers] :
        /\ e[IdB] \in {"none", "dir", "disable"}
        /\ e[MetaHybrid] \in {"none", "dir"}
        /\ e[LostFound] \in {"none", "dir"}}

\* the entries the mnt directory may hold
MntEntries ==
    {e \in [ScanNames -> {"none", "file", "dir"}] :
        /\ e[IdB] # "file"
        /\ e[MetaHybrid] # "file"
        /\ e[LostFound] # "file"}

NoEntries ==
    [id \in ScanNames |-> "none"]

InitScan ==
    /\ scan_meta \in
          [exists : {TRUE}, error : {"none", "read_dir", "entry"},
           entries : MetaEntries]
          \cup {[exists |-> FALSE, error |-> "none", entries |-> NoEntries]}
    /\ scan_mnt \in
          [exists : {TRUE}, error : {"none", "read_dir"}, entries : MntEntries]
          \cup {[exists |-> FALSE, error |-> "none", entries |-> NoEntries]}
    /\ scan_pc = "metadata"
    /\ scan_map = EmptyMap
    /\ scan_result = "none"
    /\ IdleInputs
    /\ IdleRun
    /\ IdlePlan
    /\ IdleOvl
    /\ IdleMo
    /\ IdleSync
    /\ IdleDesc

NextScan ==
    \/ ScanMetadata
    \/ ScanMnt

SpecScan ==
    InitScan /\ [][NextScan]_vars

-----------------------------------------------------------------------------
(* C14 *)

\* C14: a module whose source directory holds a disable, remove or
\* skip_mount marker is not in the map scan_active_modules returns, also
\* when the mnt directory still has a directory of that id.
C14_MarkerExcludes ==
    scan_result = "ok" =>
        \A id \in ScanNames :
            scan_meta.entries[id] \in Markers => id \notin DOMAIN scan_map

-----------------------------------------------------------------------------
(* C15 *)

\* C15: the map scan_active_modules returns has neither the key
\* "meta-hybrid" nor the key "lost+found".
C15_ReservedNeverModules ==
    scan_result = "ok" =>
        /\ MetaHybrid \notin DOMAIN scan_map
        /\ LostFound \notin DOMAIN scan_map

-----------------------------------------------------------------------------
(* C28 *)

\* C28: the metadata scan does not fail when reading one entry of the
\* directory raises an I/O error or when the directory is missing: it
\* returns the ids of the enabled modules it could read, the empty list for
\* a missing directory.
C28_EntryErrorsSkipped ==
    scan_pc # "metadata" =>
        /\ (scan_meta.exists /\ scan_meta.error = "entry")
              => scan_result # "err"
        /\ ~scan_meta.exists
              => /\ scan_result # "err"
                 /\ scan_result = "ok" =>
                       DOMAIN scan_map = MntDirs(scan_mnt)

-----------------------------------------------------------------------------
(* sync::perform_sync *)

\* A tree is what the model keeps of a module directory: the bytes of its
\* module.prop ("none" when the file is missing) and the content of its
\* partition directories ("none": no partition directory, "empty": a
\* partition directory without files, "d1", "d2": two versions of content).
\* A top-level entry of target_base is absent, a plain file or a directory
\* holding a tree, with or without the mirrored SELinux labels.
Entry(kind, prop, data, labelled) ==
    [kind |-> kind, prop |-> prop, data |-> data, labelled |-> labelled]

NoEntry ==
    Entry("none", "none", "none", FALSE)

FileEntry ==
    Entry("file", "none", "none", FALSE)

DirEntry(prop, data, labelled) ==
    Entry("dir", prop, data, labelled)

SourceTree(prop, data) ==
    [prop |-> prop, data |-> data]

\* one entry of sync_log: the operation, the entry it was for, whether it
\* succeeded, and whether a failure was an I/O fault of the environment
LogEntry(op, id, ok, fault) ==
    [op |-> op, id |-> id, ok |-> ok, fault |-> fault]

\* part_path.exists() && has_files_recursive(&part_path) for some built-in
\* partition
HasContentInSource(src) ==
    src.data \in {"d1", "d2"}

\* should_sync without the comparison of module.prop
ShouldSyncIfMissing(src, dst, read_ok) ==
    dst.kind = "none"

\* should_sync(src, dst): the destination is missing, or either module.prop
\* is missing, or the two files cannot both be read, or their bytes differ
ShouldSync(src, dst, read_ok) ==
    IF dst.kind = "none" THEN TRUE
    ELSE IF src.prop = "none" \/ dst.prop = "none" THEN TRUE
    ELSE IF ~read_ok THEN TRUE
    ELSE src.prop # dst.prop

\* the comparison reads both module.prop files
ReadsProps(src, dst) ==
    dst.kind # "none" /\ src.prop # "none" /\ dst.prop # "none"

\* what a copy that stops early has written: nothing but the directory, the
\* module.prop only, or the partition directories only
PartialTree(src, copy) ==
    IF copy = "prop_only" THEN SourceTree(src.prop, "none")
    ELSE IF copy = "data_only" THEN SourceTree("none", src.data)
    ELSE SourceTree("none", "none")

\* a tree written over a destination: what is written replaces what was
\* there, what is not written stays
WrittenOver(dst, tree) ==
    DirEntry(IF tree.prop # "none" THEN tree.prop ELSE dst.prop,
             IF tree.data # "none" THEN tree.data ELSE dst.data,
             FALSE)

\* utils::sync_dir(src, dst): the recursive copy; copy is "ok" or says where
\* it stopped. Nothing can be copied onto a plain file.
SyncDir(src, dst, copy) ==
    IF dst.kind = "file" THEN [ok |-> FALSE, entry |-> dst]
    ELSE IF copy = "ok" THEN [ok |-> TRUE, entry |-> WrittenOver(dst, src)]
    ELSE [ok |-> FALSE, entry |-> WrittenOver(dst, PartialTree(src, copy))]

\* repair_module_contexts(dst, id): the labels of the real system paths are
\* copied onto the partition directories of dst
RepairModuleContexts(entry, repair_ok) ==
    [entry EXCEPT !.labelled = repair_ok /\ entry.data # "none"]

\* fs::remove_dir_all(dst): fails on a plain file
RemoveDirAll(dst, remove_ok) ==
    IF dst.kind = "dir" /\ remove_ok THEN NoEntry ELSE dst

\* the outcomes of the I/O one loop iteration may do: whether both
\* module.prop files can be read, whether remove_dir_all succeeds, how far
\* the copy gets, whether the labels can be copied
NoFault ==
    [read |-> TRUE, remove |-> TRUE, copy |-> "ok", repair |-> TRUE]

ModuleOutcomes ==
    [read : BOOLEAN, remove : BOOLEAN,
     copy : {"ok", "nothing", "prop_only", "data_only"}, repair : BOOLEAN]

\* no I/O fault has been logged
FaultFree(log) ==
    \A i \in 1..Len(log) : ~log[i].fault

\* the copy is only made when there was nothing to remove
CopiesOnlyIfAbsent(dst) ==
    dst.kind = "none"

\* utils::sync_dir is called whether or not the destination had to be removed
CopiesAfterRemove(dst) ==
    TRUE

\* the body of the loop of perform_sync for one module: the entry left at
\* target_base/<id> and what was attempted
SyncOneModule(id, src, dst, o) ==
    IF ~HasContentInSource(src)
    THEN [entry |-> dst, log |-> <<LogEntry("empty", id, TRUE, FALSE)>>]
    ELSE LET unread == IF ReadsProps(src, dst) /\ ~o.read
                       THEN <<LogEntry("read_prop", id, FALSE, TRUE)>>
                       ELSE <<>>
         IN  IF ~ShouldSync(src, dst, o.read)
             THEN [entry |-> dst, log |-> <<LogEntry("skip", id, TRUE, FALSE)>>]
             ELSE LET cleaned == RemoveDirAll(dst, o.remove)
                      removal ==
                          IF dst.kind = "none" THEN <<>>
                          ELSE <<LogEntry("remove", id, cleaned.kind = "none",
                                     dst.kind = "dir" /\ ~o.remove)>>
                      copied == SyncDir(src, cleaned, o.copy)
                  IN  IF ~CopiesAfterRemove(dst)
                      THEN [entry |-> cleaned, log |-> unread \o removal]
                      ELSE IF copied.ok
                      THEN [entry |-> RepairModuleContexts(copied.entry,
                                          o.repair),
                            log |-> unread \o removal
                                \o <<LogEntry("copy", id, TRUE, FALSE),
                                     LogEntry("repair", id, o.repair,
                                              ~o.repair)>>]
                      ELSE [entry |-> copied.entry,
                            log |-> unread \o removal
                                \o <<LogEntry("copy", id, FALSE,
                                              cleaned.kind # "file")>>]

\* the names the top level of target_base may hold: the two module ids, a
\* name no module has, and the two reserved names
StagingNames ==
    {IdA, IdB, IdC, LostFound, MetaHybrid}

\* only directories are pruned
PruneTargetsDirsOnly(stg, active_ids) ==
    {name \in DOMAIN stg :
        /\ stg[name].kind = "dir"
        /\ name \notin {LostFound, MetaHybrid}
        /\ name \notin active_ids}

\* the entries prune_orphaned_modules removes: every entry that is neither
\* reserved nor the id of a module
PruneTargets(stg, active_ids) ==
    {name \in DOMAIN stg :
        /\ stg[name].kind # "none"
        /\ name \notin {LostFound, MetaHybrid}
        /\ name \notin active_ids}

\* the outcomes of the I/O of prune_orphaned_modules: err says whether
\* read_dir or one of its entries fails, seen which orphans were reached
\* before a failing entry, failed which removals fail
PruneFaultFree(targets) ==
    [err |-> "none", seen |-> targets, failed |-> {}]

PruneOutcomes(targets) ==
    {o \in [err : {"none", "read_dir", "entry"}, seen : SUBSET targets,
            failed : SUBSET targets] :
        /\ o.failed \subseteq o.seen
        /\ o.err = "none" => o.seen = targets
        /\ o.err = "read_dir" => o.seen = {}}

\* prune_orphaned_modules(modules, target_base)
PruneOrphanedModules(stg, base, active_ids, o) ==
    IF ~base THEN [staging |-> stg, log |-> <<>>, ok |-> TRUE]
    ELSE IF o.err = "read_dir"
    THEN [staging |-> stg,
          log |-> <<LogEntry("read_dir", <<>>, FALSE, TRUE)>>,
          ok |-> FALSE]
    ELSE LET removed == o.seen \ o.failed
             order   == SortById(o.seen)
         IN  [staging |-> [name \in DOMAIN stg |->
                              IF name \in removed THEN NoEntry ELSE stg[name]],
              log |-> <<LogEntry("read_dir", <<>>, TRUE, FALSE)>>
                      \o [i \in 1..Len(order) |->
                             LogEntry("remove_orphan", order[i],
                                      order[i] \notin o.failed,
                                      order[i] \in o.failed)]
                      \o (IF o.err = "entry"
                          THEN <<LogEntry("entry", <<>>, FALSE, TRUE)>>
                          ELSE <<>>),
              ok |-> o.err = "none"]

\* every operation of a log succeeded
AllOk(log) ==
    \A i \in 1..Len(log) : log[i].ok

\* I/O faults and kills happen in the first run; the second run is the
\* complete run that follows them
FaultsAllowed ==
    sync_run = "first"

\* the ids of modules: &[Module]
ActiveIds ==
    SeqToSet(sync_modules)

\* step 1 of perform_sync: prune_orphaned_modules(modules, target_base)?
SyncPrune ==
    /\ sync_pc = "prune"
    /\ \E targets \in {PruneTargets(staging, ActiveIds)} :
          \E o \in (IF FaultsAllowed THEN PruneOutcomes(targets)
                    ELSE {PruneFaultFree(targets)}) :
              \E r \in {PruneOrphanedModules(staging, sync_base,
                                             ActiveIds, o)} :
                  /\ staging' = r.staging
                  /\ sync_log' = sync_log \o r.log
                  /\ sync_pc' = IF r.ok THEN "module" ELSE "done"
                  /\ sync_result' = IF r.ok THEN sync_result ELSE "err"
    /\ sync_i' = 1
    /\ UNCHANGED <<sync_modules, sync_src, sync_base, sync_run, sync_first,
                   sync_event>>
    /\ UNCHANGED outsideSync

\* a failure of one module ends the loop
NextModuleBail(i, log) ==
    IF AllOk(log) THEN i + 1 ELSE Len(sync_modules) + 1

\* every failure inside the loop is logged and the loop goes on
NextModule(i, log) ==
    i + 1

\* step 2 of perform_sync: one iteration of the loop over modules
SyncModule ==
    /\ sync_pc = "module"
    /\ sync_i <= Len(sync_modules)
    /\ \E id \in {sync_modules[sync_i]} :
          \E o \in (IF FaultsAllowed THEN ModuleOutcomes ELSE {NoFault}) :
              \E r \in {SyncOneModule(id, sync_src[id], staging[id], o)} :
                  /\ staging' = [staging EXCEPT ![id] = r.entry]
                  /\ sync_base' = (sync_base \/ r.entry.kind # "none")
                  /\ sync_log' = sync_log \o r.log
                  /\ sync_i' = NextModule(sync_i, r.log)
    /\ UNCHANGED <<sync_modules, sync_src, sync_pc, sync_run, sync_result,
                   sync_first, sync_event>>
    /\ UNCHANGED outsideSync

\* the process is killed while it removes and copies a module: the
\* destination is gone, or holds whatever the copy had written by then
SyncAbort ==
    /\ sync_pc = "module"
    /\ sync_i <= Len(sync_modules)
    /\ FaultsAllowed
    /\ \E id \in {sync_modules[sync_i]} :
          /\ HasContentInSource(sync_src[id])
          /\ ShouldSync(sync_src[id], staging[id], TRUE)
          /\ staging[id].kind # "file"
          /\ \E point \in {"removed", "nothing", "prop_only", "data_only"} :
                /\ staging' =
                      [staging EXCEPT ![id] =
                          IF point = "removed" THEN NoEntry
                          ELSE SyncDir(sync_src[id], NoEntry, point).entry]
                /\ sync_base' = (sync_base \/ point # "removed")
          /\ sync_log' = Append(sync_log, LogEntry("abort", id, FALSE, TRUE))
    /\ sync_pc' = "aborted"
    /\ UNCHANGED <<sync_modules, sync_src, sync_i, sync_run, sync_result,
                   sync_first, sync_event>>
    /\ UNCHANGED outsideSync

\* Ok(()) after the loop
SyncReturn ==
    /\ sync_pc = "module"
    /\ sync_i > Len(sync_modules)
    /\ sync_pc' = "done"
    /\ sync_result' = "ok"
    /\ UNCHANGED <<sync_modules, sync_src, staging, sync_base, sync_i,
                   sync_run, sync_log, sync_first, sync_event>>
    /\ UNCHANGED outsideSync

\* what may happen to the source of the first module between two runs:
\* nothing, its module.prop is rewritten, or another of its files is
SourceAfter(src, event) ==
    IF event = "prop_changed" THEN [src EXCEPT !.prop = "p2"]
    ELSE IF event = "other_changed" THEN [src EXCEPT !.data = "d2"]
    ELSE src

\* the next start of the daemon: perform_sync runs again with the same
\* inventory
SyncAgain ==
    /\ sync_run = "first"
    /\ sync_pc \in {"done", "aborted"}
    /\ \E event \in {"none", "prop_changed", "other_changed"} :
          /\ event # "none" =>
                /\ sync_modules # <<>>
                /\ sync_src[sync_modules[1]].prop = "p1"
                /\ sync_src[sync_modules[1]].data = "d1"
          /\ sync_event' = event
          /\ sync_src' =
                IF event = "none" THEN sync_src
                ELSE [sync_src EXCEPT ![sync_modules[1]] =
                         SourceAfter(sync_src[sync_modules[1]], event)]
    /\ sync_first' = [staging |-> staging, src |-> sync_src,
                      result |-> sync_result, log |-> sync_log]
    /\ sync_run' = "second"
    /\ sync_pc' = "prune"
    /\ sync_i' = 0
    /\ sync_log' = <<>>
    /\ sync_result' = "none"
    /\ UNCHANGED <<sync_modules, staging, sync_base>>
    /\ UNCHANGED outsideSync

\* the sources of the first module of the inventory: with and without a
\* module.prop, with content, with an empty partition directory, with none
SourceOptions ==
    {SourceTree("p1", "d1"), SourceTree("none", "d1"),
     SourceTree("p1", "empty"), SourceTree("none", "none")}

\* what target_base/<id> may be for the first module before the first run:
\* absent, a plain file, its current copy, a copy of an older module.prop,
\* a copy without module.prop, a copy without partition directories
StagedOptions ==
    {NoEntry, FileEntry, DirEntry("p1", "d1", TRUE), DirEntry("p2", "d1", TRUE),
     DirEntry("none", "d1", TRUE), DirEntry("p1", "none", FALSE)}

\* what an entry no module owns may be
OrphanOptions ==
    {NoEntry, FileEntry, DirEntry("p1", "d1", TRUE)}

\* the inventories: none, module B, modules B and A
Inventories ==
    {<<>>, <<IdB>>, <<IdB, IdA>>}

\* the reserved entries: none, or lost+found/ with a file meta-hybrid
ReservedOptions ==
    {[lost |-> NoEntry, meta |-> NoEntry],
     [lost |-> DirEntry("none", "none", FALSE), meta |-> FileEntry]}

InitSync ==
    /\ sync_modules \in Inventories
    /\ \E srcB \in SourceOptions :
          sync_src = [id \in SeqToSet(sync_modules) |->
                         IF id = IdB THEN srcB ELSE SourceTree("p1", "d1")]
    /\ sync_base \in BOOLEAN
    /\ \E b \in StagedOptions, a \in {NoEntry, DirEntry("p1", "d1", TRUE)},
          c \in OrphanOptions, res \in ReservedOptions :
          /\ IdA \in SeqToSet(sync_modules) => a = NoEntry
          /\ IdB \notin SeqToSet(sync_modules) => b \in OrphanOptions
          /\ staging =
                IF sync_base
                THEN (IdA :> a) @@ (IdB :> b) @@ (IdC :> c)
                     @@ (LostFound :> res.lost) @@ (MetaHybrid :> res.meta)
                ELSE [name \in StagingNames |-> NoEntry]
    /\ sync_pc = "prune"
    /\ sync_i = 0
    /\ sync_run = "first"
    /\ sync_log = <<>>
    /\ sync_result = "none"
    /\ sync_first = <<>>
    /\ sync_event = "none"
    /\ IdleInputs
    /\ IdleRun
    /\ IdlePlan
    /\ IdleOvl
    /\ IdleMo
    /\ IdleScan
    /\ IdleDesc

NextSync ==
    \/ SyncPrune
    \/ SyncModule
    \/ SyncAbort
    \/ SyncReturn
    \/ SyncAgain

SpecSync ==
    InitSync /\ [][NextSync]_vars

-----------------------------------------------------------------------------
(* What perform_sync did, read off its log *)

Reserved ==
    {LostFound, MetaHybrid}

\* the entries of a log for one id and one of some operations
LogOf(log, id, ops) ==
    {i \in 1..Len(log) : log[i].id = id /\ log[i].op \in ops}

\* every removal the run attempted succeeded
RemovalsSucceeded ==
    \A i \in 1..Len(sync_log) :
        sync_log[i].op \in {"remove_orphan", "remove"} => sync_log[i].ok

\* the top level of target_base holds reserved names and module ids only
OnlyReservedAndModules ==
    \A name \in DOMAIN staging :
        staging[name].kind # "none" => name \in Reserved \cup ActiveIds

\* no reserved entry was removed by this run
ReservedKept ==
    /\ \A i \in 1..Len(sync_log) :
          sync_log[i].op = "remove_orphan" => sync_log[i].id \notin Reserved
    /\ sync_run = "second" =>
          \A name \in Reserved : staging[name] = sync_first.staging[name]

\* the first run went through without an I/O fault and returned Ok
FirstRunClean ==
    /\ sync_run = "second"
    /\ sync_first.result = "ok"
    /\ FaultFree(sync_first.log)

\* the complete copy of a source, labelled
SyncedCopy(src) ==
    DirEntry(src.prop, src.data, TRUE)

-----------------------------------------------------------------------------
(* C16 *)

-----------------------------------------------------------------------------
(* C17 *)

\* C17: when perform_sync runs twice with the same inventory and unchanged
\* sources and no I/O operation fails, the staging base after the second run
\* equals the staging base after the first, whatever the staging base held
\* before and whether or not the sources have a module.prop.
C17_SyncIdempotent ==
    (FirstRunClean /\ sync_event = "none" /\ sync_pc = "done") =>
        staging = sync_first.staging

\* a module without module.prop was copied by the first run and copied again
\* by the second
C17_Witness ==
    /\ FirstRunClean
    /\ sync_event = "none"
    /\ sync_pc = "done"
    /\ IdB \in ActiveIds
    /\ sync_src[IdB].prop = "none"
    /\ LogOf(sync_first.log, IdB, {"copy"}) # {}
    /\ LogOf(sync_log, IdB, {"copy"}) # {}

-----------------------------------------------------------------------------
(* C18 *)

\* the first module of the inventory had content and a module.prop and the
\* first run left its complete copy in staging
AlreadySynced ==
    /\ FirstRunClean
    /\ sync_modules # <<>>
    /\ \E id \in {sync_modules[1]} :
          /\ HasContentInSource(sync_first.src[id])
          /\ sync_first.src[id].prop # "none"
          /\ sync_first.staging[id] = SyncedCopy(sync_first.src[id])

\* C18: for an already-synced module with content, a changed module.prop in
\* the source makes the next perform_sync remove staging/<id> and then copy
\* it again from the source; a change of other files only, with both
\* module.prop files still byte-equal, makes it neither remove nor copy and
\* leaves staging/<id> as it was.
C18_SyncFreshness ==
    (AlreadySynced /\ sync_pc = "done") =>
        \A id \in {sync_modules[1]} :
            /\ sync_event = "prop_changed" =>
                  /\ \E i \in LogOf(sync_log, id, {"remove"}) :
                        \E j \in LogOf(sync_log, id, {"copy"}) :
                            i < j /\ sync_log[i].ok /\ sync_log[j].ok
                  /\ staging[id] = SyncedCopy(sync_src[id])
                  /\ staging[id].prop = "p2"
            /\ sync_event = "other_changed" =>
                  /\ LogOf(sync_log, id, {"remove", "copy", "repair"}) = {}
                  /\ staging[id] = sync_first.staging[id]
                  /\ staging[id].data # sync_src[id].data

\* the module.prop of an already-synced module changed and the second run
\* replaced the copy
C18_Witness ==
    /\ AlreadySynced
    /\ sync_pc = "done"
    /\ sync_event = "prop_changed"
    /\ LogOf(sync_log, sync_modules[1], {"copy"}) # {}

-----------------------------------------------------------------------------
(* C19 *)

\* the first run was killed while it removed and copied module id
AbortedAt(id) ==
    /\ sync_run = "second"
    /\ sync_first.log # <<>>
    /\ sync_first.log[Len(sync_first.log)].op = "abort"
    /\ sync_first.log[Len(sync_first.log)].id = id

\* C19: when a run is killed at any point of a module's remove-then-copy, a
\* following complete run with the same inventory leaves staging/<id> equal
\* to what an uninterrupted sync leaves there.
C19_AbortRecovers ==
    (sync_pc = "done" /\ sync_event = "none") =>
        \A id \in ActiveIds :
            AbortedAt(id) => staging[id] = SyncedCopy(sync_src[id])

-----------------------------------------------------------------------------
(* C20 *)

\* the loop reached module id: it found it empty or up to date, or it
\* attempted the copy
Processed(id) ==
    LogOf(sync_log, id, {"empty", "skip", "copy"}) # {}

\* read_dir or one of its entries failed while the top level of the staging
\* base was enumerated
EnumerationFailed ==
    \E i \in 1..Len(sync_log) :
        sync_log[i].op \in {"read_dir", "entry"} /\ ~sync_log[i].ok

\* C20: a failure while removing, copying or repairing one module does not
\* keep the loop from the following modules; perform_sync returns Ok
\* whenever the loop completes, and it returns an error only when the
\* enumeration of the top level of the staging base failed.
C20_PerModuleFailuresSwallowed ==
    sync_pc = "done" =>
        /\ sync_result = "err" <=> EnumerationFailed
        /\ sync_result = "ok" <=> ~EnumerationFailed
        /\ sync_result = "ok" => \A id \in ActiveIds : Processed(id)
        /\ (sync_result = "ok" /\ sync_run = "first" /\ IdA \in ActiveIds) =>
              LogOf(sync_log, IdA, {"copy"}) # {}

\* the copy of the first module failed, the second module was copied, and
\* perform_sync returned Ok
C20_Witness ==
    /\ sync_pc = "done"
    /\ sync_result = "ok"
    /\ \E i \in LogOf(sync_log, IdB, {"copy", "remove", "repair"}) :
          ~sync_log[i].ok
    /\ \E j \in LogOf(sync_log, IdA, {"copy"}) : sync_log[j].ok

-----------------------------------------------------------------------------
(* C23 *)

\* the module roots run hands to mount_overlay for partition p when
\* config.partitions is empty: one layer per module with a directory for p,
\* greatest id first
RootsWithoutExtras(p) ==
    LET ids == Reverse(SortById(Touching(p)))
    IN  [k \in 1..Len(ids) |-> Layer(ids[k], p)]

\* C23: with a name in config.partitions that the partition list already
\* holds, run makes the mount_overlay calls it makes without it: one call
\* per partition, with the module roots it passes when config.partitions is
\* empty.
C23_DuplicatesInert ==
    \A i \in 1..Len(calls) :
        calls[i].op = "mount_overlay" =>
            /\ calls[i].roots = RootsWithoutExtras(PartOfCall(i))
            /\ \A j \in 1..Len(calls) :
                  calls[j].op = "mount_overlay"
                  /\ calls[j].target = calls[i].target => j = i

-----------------------------------------------------------------------------
(* C26 *)

\* the mount_overlay call for partition p failed
OverlayFailed(p) ==
    \E i \in 1..Len(calls) :
        /\ calls[i].op = "mount_overlay"
        /\ calls[i].target = TargetPath(p)
        /\ ~calls[i].ok

\* C26: a module whose p subdirectory is an empty directory contributes no
\* layer to the overlay mount of /p, and p is force-magic only if a
\* magic-mode module has a p subdirectory with at least one entry or the
\* overlay mount of /p failed.
C26_EmptyDirDoesNotParticipate ==
    /\ \A i \in 1..Len(calls) :
          calls[i].op = "mount_overlay" =>
              \A id \in DOMAIN active_modules :
                  EntryAt(id, PartOfCall(i)) = "empty" =>
                      Layer(id, PartOfCall(i)) \notin SeqToSet(calls[i].roots)
    /\ \A p \in magic_force_map :
          \/ OverlayFailed(p)
          \/ \E id \in DOMAIN active_modules :
                ModeOf(id) = "magic" /\ EntryAt(id, p) = "full"

-----------------------------------------------------------------------------
(* C30 *)

\* C30: no module root passed to mount_partitions contains a directory for a
\* partition whose mount_overlay call in Pass 1 succeeded.
C30_OneStrategyPerPartition ==
    \A j \in 1..Len(calls) :
        calls[j].op = "mount_partitions" =>
            \A i \in 1..Len(calls) :
                (calls[i].op = "mount_overlay" /\ calls[i].ok) =>
                    \A id \in DOMAIN active_modules :
                        ContentPath(id) \in SeqToSet(calls[j].roots)
                            => ~IsDir(id, PartOfCall(i))

-----------------------------------------------------------------------------
(* modules::update_description *)

\* how many lines the module.prop files of the model have at most
MaxLines == 2

\* how many times update_description is called on the same file
MaxCalls == 2

LineFeed ==
    <<10>>

CarriageReturn ==
    <<13>>

\* "description="
DescriptionKey ==
    <<100, 101, 115, 99, 114, 105, 112, 116, 105, 111, 110, 61>>

\* "tmpfs", and "ext4" for any other storage mode
TmpfsMode ==
    <<116, 109, 112, 102, 115>>

Ext4Mode ==
    <<101, 120, 116, 52>>

\* mode_str: "Tmpfs" or "Ext4"
ModeStr(storage_mode) ==
    IF storage_mode = TmpfsMode THEN <<84, 109, 112, 102, 115>>
    ELSE <<69, 120, 116, 52>>

\* status_emoji: U+1F43E or U+1F4BF, in UTF-8
StatusEmoji(storage_mode) ==
    IF storage_mode = TmpfsMode THEN <<240, 159, 144, 190>>
    ELSE <<240, 159, 146, 191>>

\* nuke_str: " | <paw pad>: <on> <sparkles>" or the empty string
NukeStr(nuke_active) ==
    IF nuke_active
    THEN <<32, 124, 32, 232, 130, 137, 229, 158, 171, 58, 32, 229, 188, 128,
           229, 144, 175, 32, 226, 156, 168>>
    ELSE <<>>

\* the Display form of a usize
RECURSIVE ToDecimal(_)
ToDecimal(n) ==
    IF n < 10 THEN <<48 + n>>
    ELSE Append(ToDecimal(n \div 10), 48 + (n % 10))

\* format!("description=<face> <running> ({}) {} | Overlay: {} | Magic: {}{}")
NewDesc(args) ==
    <<100, 101, 115, 99, 114, 105, 112, 116, 105, 111, 110, 61, 240, 159,
      152, 139, 32, 232, 191, 144, 232, 161, 140, 228, 184, 173, 229, 150,
      181, 239, 189, 158, 32, 40>>
    \o ModeStr(args.storage_mode)
    \o <<41, 32>>
    \o StatusEmoji(args.storage_mode)
    \o <<32, 124, 32, 79, 118, 101, 114, 108, 97, 121, 58, 32>>
    \o ToDecimal(args.overlay_count)
    \o <<32, 124, 32, 77, 97, 103, 105, 99, 58, 32>>
    \o ToDecimal(args.magic_count)
    \o NukeStr(args.nuke_active)

\* str::starts_with
StartsWith(str, prefix) ==
    /\ Len(str) >= Len(prefix)
    /\ SubSeq(str, 1, Len(prefix)) = prefix

\* a line that ended in "\n" loses one "\r" before it
StripCr(line) ==
    IF line # <<>> /\ <<line[Len(line)]>> = CarriageReturn
    THEN SubSeq(line, 1, Len(line) - 1)
    ELSE line

\* the position of the first "\n" of a text that has one
FirstLineFeed(s) ==
    CHOOSE i \in 1..Len(s) :
        /\ <<s[i]>> = LineFeed
        /\ \A j \in 1..(i - 1) : <<s[j]>> # LineFeed

\* str::lines: the text is cut after every "\n"; each piece loses its "\n"
\* and then one "\r" before it; text after the last "\n" is a line of its
\* own only when it is not empty
RECURSIVE Lines(_)
Lines(s) ==
    IF s = <<>> THEN <<>>
    ELSE IF \A i \in 1..Len(s) : <<s[i]>> # LineFeed THEN <<s>>
    ELSE LET i == FirstLineFeed(s)
         IN  <<StripCr(SubSeq(s, 1, i - 1))>>
             \o Lines(SubSeq(s, i + 1, Len(s)))

\* which lines the loop replaces by new_desc
Rewrites(lines, i) ==
    StartsWith(lines[i], DescriptionKey)

\* the loop over content.lines()
NewLines(content, new_desc) ==
    LET lines == Lines(content)
    IN  [i \in 1..Len(lines) |->
            IF Rewrites(lines, i) THEN new_desc ELSE lines[i]]

\* what is written back: new_lines.join("\n")
Rewritten(content, new_desc) ==
    Join(NewLines(content, new_desc), LineFeed)

\* fs::write that failed: the file was not opened, or it was truncated and
\* nothing reached it
FailedWrites(old) ==
    {old, <<>>}

CallOutcome(before, after, outcome) ==
    [before |-> before, after |-> after, outcome |-> outcome]

\* one call of update_description with desc_args
UpdateDescription ==
    /\ Len(desc_hist) < MaxCalls
    /\ \/ /\ ~desc_file.exists
          /\ desc_file' = desc_file
          /\ desc_hist' =
                Append(desc_hist, CallOutcome(desc_file, desc_file, "missing"))
       \/ /\ desc_file.exists
          /\ \E read_ok \in BOOLEAN :
                IF ~read_ok
                THEN /\ desc_file' = desc_file
                     /\ desc_hist' =
                           Append(desc_hist,
                                  CallOutcome(desc_file, desc_file, "read_err"))
                ELSE \E new \in {Rewritten(desc_file.bytes,
                                            NewDesc(desc_args))} :
                        \/ /\ desc_file' = FileOf(new)
                           /\ desc_hist' =
                                 Append(desc_hist,
                                        CallOutcome(desc_file, FileOf(new),
                                                    "ok"))
                        \/ \E left \in FailedWrites(desc_file.bytes) :
                              /\ desc_file' = FileOf(left)
                              /\ desc_hist' =
                                    Append(desc_hist,
                                           CallOutcome(desc_file, FileOf(left),
                                                       "write_err"))
    /\ UNCHANGED <<desc_args, outsideDesc>>

\* the lines the files of the model are made of: a description line, another
\* key, an empty line, a key that is a proper prefix of "description=", and
\* a line with a carriage return of its own
DescLineOptions ==
    { DescriptionKey \o <<111, 108, 100>>,
      <<110, 97, 109, 101, 61, 109>>,
      <<>>,
      <<100, 101, 115, 99, 114, 105, 112, 116, 105, 111>>,
      <<118>> \o CarriageReturn }

LineEndings ==
    {LineFeed, CarriageReturn \o LineFeed}

RECURSIVE FilesOf(_)
\* the texts of exactly n lines, every line but the last with a line ending
FilesOf(n) ==
    IF n = 0 THEN {<<>>}
    ELSE IF n = 1 THEN DescLineOptions
    ELSE {line \o ending \o rest :
            line \in DescLineOptions, ending \in LineEndings,
            rest \in FilesOf(n - 1)}

\* module.prop: missing, or up to MaxLines lines, the last one with or
\* without a line ending
DescTexts ==
    UNION {FilesOf(n) : n \in 0..MaxLines}
    \cup UNION {{text \o ending : text \in FilesOf(n), ending \in LineEndings} :
                    n \in 1..MaxLines}

DescFiles ==
    {NoFile} \cup {FileOf(text) : text \in DescTexts}

CountOptions ==
    {0, 12}

DescArgs ==
    [storage_mode : {TmpfsMode, Ext4Mode}, nuke_active : BOOLEAN,
     overlay_count : CountOptions, magic_count : CountOptions]

InitDesc ==
    /\ desc_args \in DescArgs
    /\ desc_file \in DescFiles
    /\ desc_hist = <<>>
    /\ IdleInputs
    /\ IdleRun
    /\ IdlePlan
    /\ IdleOvl
    /\ IdleMo
    /\ IdleScan
    /\ IdleSync

NextDesc ==
    UpdateDescription

SpecDesc ==
    InitDesc /\ [][NextDesc]_vars

-----------------------------------------------------------------------------
(* Claims about update_description *)

\* the calls that read the file and wrote it back
Rewrote(i) ==
    desc_hist[i].outcome = "ok"

\* C21: two successive calls of update_description with the same inputs, both
\* of which read and wrote the file, leave the same bytes as the first of
\* them alone.
C21_Idempotent ==
    \A i \in 1..(Len(desc_hist) - 1) :
        Rewrote(i) /\ Rewrote(i + 1)
            => desc_hist[i + 1].after = desc_hist[i].after

\* the position of the first line that starts with "description=", 0 if none
FirstDescription(lines) ==
    IF \E i \in 1..Len(lines) : StartsWith(lines[i], DescriptionKey)
    THEN CHOOSE i \in 1..Len(lines) :
            /\ StartsWith(lines[i], DescriptionKey)
            /\ \A j \in 1..(i - 1) : ~StartsWith(lines[j], DescriptionKey)
    ELSE 0

\* C22: a call that rewrote the file changed only the first line that starts
\* with "description="; every other line, a later "description=" line
\* included, is the same bytes at the same position, and the file has as
\* many lines as before.
C22_OnlyFirstLineRewritten ==
    \A i \in 1..Len(desc_hist) :
        Rewrote(i) =>
            \A before \in {Lines(desc_hist[i].before.bytes)} :
            \A after \in {Lines(desc_hist[i].after.bytes)} :
                /\ Len(after) = Len(before)
                /\ \A j \in 1..Len(before) :
                      j # FirstDescription(before) => after[j] = before[j]

====
